---- MODULE Spec2Model ----
(***************************************************************************)
(* Paradox IP150 client (src/ip150.py): the session object Paradox_IP150,  *)
(* its KeepAlive threads and its _updates (poller) threads.                *)
(*                                                                         *)
(* One control thread calls the public methods.  A call is a sequence of   *)
(* steps; a step ends where the code blocks (an HTTP round trip, a join)   *)
(* so that the background threads interleave exactly there.  The panel is  *)
(* the environment: every HTTP response is chosen nondeterministically.    *)
(***************************************************************************)
EXTENDS Integers, Sequences, FiniteSets, TLC

\* ---------------------------------------------------------------- bounds
\* Thread objects that can exist at once (a finished thread nobody refers
\* to is garbage: its slot is free again).
NKeepAlive == 2
NUpdates == 2

\* ------------------------------------------------------ program constants
\* _get_updates(..., max_retry_count=5)
max_retry_count == 5

KeepAliveIds == 1..NKeepAlive
UpdatesIds == 1..NUpdates
\* None, for the handles _keepalive and _updates
None == 0

\* Arguments the caller may pass.
\* login(user, pwd, keep_alive_interval): 0 is falsy, the others start a task
KeepAliveIntervals == {0, 5, 10}
\* get_updates(on_update, on_error, userdata, poll_interval)
PollIntervals == {-1, 0, 1}
\* set_area_action(area, action): area is an int or a str.  An int has its
\* value in `int`, a str its characters in `text`.
IntArea(n) == [str |-> FALSE, int |-> n, text |-> <<>>]
StrArea(text) == [str |-> TRUE, int |-> 0, text |-> text]
Areas == {IntArea(0), IntArea(1)}
Actions == {"Arm", "Bogus"}

VARIABLES
    logged_in,      \* self._logged_in
    keepalive,      \* self._keepalive: None or a KeepAlive thread
    updates,        \* self._updates: None or a poller thread
    stop_updates,   \* self._stop_updates: the flag of the shared Event
    ka,             \* the KeepAlive thread objects
    up,             \* the threads running _get_updates
    ctl             \* the control thread: the call in progress or just returned

vars == <<logged_in, keepalive, updates, stop_updates, ka, up, ctl>>

\* A KeepAlive object: where its run() is, and its own Event `stopped`.
\*   none  no such object        wait  in self.stopped.wait(self.interval)
\*   req   in _one_keepalive(), the request is in flight
\*   done  run() has ended
NoKeepAlive == [pc |-> "none", stopped |-> FALSE]

\* A thread running _get_updates: where it is, and retry_count.
\*   none     no such thread
\*   wait     about to call self._stop_updates.wait(interval)
\*   blocked  inside wait(), the flag was clear on entry
\*   fetch    inside get_info(), the request is in flight
\*   exc      in the handler `except Exception`, before on_error
\*   fin      the loop has ended (wait() has returned True or is about to,
\*            having been notified; or the handler has run): next is
\*            `finally`, self._stop_updates.clear()
\*   done     the thread has ended
\* retry_count is kept while the loop runs and, when the handler has run,
\* from then on: a thread that ended with max_retry_count + 1 ended for
\* exhausted retries.
NoUpdates == [pc |-> "none", retry_count |-> 0]

\* The session's fields as one value, for comparing before and after a call.
Sess ==
    [logged_in |-> logged_in,
     keepalive |-> keepalive,
     updates |-> updates,
     stop_updates |-> stop_updates,
     cancelled |-> IF keepalive = None THEN FALSE ELSE ka[keepalive].stopped]

NoSess ==
    [logged_in |-> FALSE, keepalive |-> None, updates |-> None,
     stop_updates |-> FALSE, cancelled |-> FALSE]

\* The control thread's frame.
\*   pc       idle, ret (the instant a call returns: err says how), or the
\*            place inside the method where the thread is blocked
\*   op       the method called;  arg  the tuple of its arguments
\*   pre      Sess when the call began;  post  Sess when it returned
\*   reqs     the HTTP requests this call has issued, in order
\*   resps    what came back for them, in order
\*   started  the threads this call has started, with their arguments
\*   sig      the Events this call has set
\*   err      "ok" or the error the call raised
\*   detail   what the error's message lists
\*   ret      the value the call returned
Idle ==
    [pc |-> "idle", op |-> "none", arg |-> <<>>, pre |-> NoSess,
     post |-> NoSess, reqs |-> <<>>, resps |-> <<>>, started |-> <<>>,
     sig |-> {}, err |-> "none", detail |-> <<>>, ret |-> <<>>]

\* The control thread may begin a call.
Ready == ctl.pc = "idle"

\* A background thread may take a step.  The instant of return is no place
\* of its own in the code: the caller is idle from then on, and every step
\* of another thread falls before the return or after it.
Running == ctl.pc # "ret"

\* The frame of a call that begins now.
Call(op, arg) ==
    [Idle EXCEPT !.pc = "run", !.op = op, !.arg = arg, !.pre = Sess]

Req(ep, params) == [ep |-> ep, params |-> params]

TypeOK ==
    /\ logged_in \in BOOLEAN
    /\ keepalive \in {None} \cup KeepAliveIds
    /\ updates \in {None} \cup UpdatesIds
    /\ stop_updates \in BOOLEAN
    /\ \A i \in KeepAliveIds :
          /\ ka[i].pc \in {"none", "wait", "req", "done"}
          /\ ka[i].stopped \in BOOLEAN
    /\ \A i \in UpdatesIds :
          /\ up[i].pc \in {"none", "wait", "blocked", "fetch", "exc", "fin",
                           "done"}
          /\ up[i].retry_count \in 0..(max_retry_count + 1)

Init ==
    /\ logged_in = FALSE
    /\ keepalive = None
    /\ updates = None
    /\ stop_updates = FALSE
    /\ ka = [i \in KeepAliveIds |-> NoKeepAlive]
    /\ up = [i \in UpdatesIds |-> NoUpdates]
    /\ ctl = Idle

\* ------------------------------------------------------------- helpers

\* The frame of a call that returns now: post is the session as the step
\* leaves it.
Returned(f, err) == [f EXCEPT !.pc = "ret", !.err = err, !.post = Sess']

\* Slots no thread object occupies.
FreeKeepAlive == {i \in KeepAliveIds : ka[i].pc = "none"}
FreeUpdates == {i \in UpdatesIds : up[i].pc = "none"}
NewKeepAlive == CHOOSE i \in FreeKeepAlive : \A j \in FreeKeepAlive : i <= j
NewUpdates == CHOOSE i \in FreeUpdates : \A j \in FreeUpdates : i <= j

\* A thread whose run() has ended stays as a finished object while a handle
\* refers to it (join() returns at once on it); without a referent it is
\* garbage.
KeepAliveEnded(i) ==
    IF keepalive = i
    THEN [ka EXCEPT ![i].pc = "done"]
    ELSE [ka EXCEPT ![i] = NoKeepAlive]

UpdatesEnded(i) ==
    IF updates = i
    THEN [up EXCEPT ![i].pc = "done"]
    ELSE [up EXCEPT ![i] = NoUpdates]

\* self._keepalive = None / self._updates = None: the handle is dropped.
KeepAliveDropped(i) ==
    IF ka[i].pc = "done" THEN [ka EXCEPT ![i] = NoKeepAlive] ELSE ka

UpdatesDropped(t, i) ==
    IF t[i].pc = "done" THEN [t EXCEPT ![i] = NoUpdates] ELSE t

\* The loop of _get_updates is left: its locals are dead.
LoopEnded(t) == [t EXCEPT !.pc = "fin", !.retry_count = 0]

\* threading.Event.set() on self._stop_updates: the flag becomes true and
\* every thread blocked in wait() is notified: its wait() returns True,
\* whatever the flag is by the time it runs again, and its loop ends.
Notified(t) ==
    [i \in UpdatesIds |->
        IF t[i].pc = "blocked" THEN LoopEnded(t[i]) ELSE t[i]]

\* ---------------------------------------------------------------- login
\* LoginCall with the guard `if self.logged_in` left out.
LoginCall_NoGuard(interval) ==
    /\ Ready
    /\ interval # 0 => FreeKeepAlive # {}
    /\ UNCHANGED <<logged_in, keepalive, updates, stop_updates, ka, up>>
    /\ ctl' = [Call("login", <<interval>>) EXCEPT
                  !.pc = "login_page",
                  !.reqs = <<Req("login_page.html", <<>>)>>]

\* login(user, pwd, keep_alive_interval), lines 169-176: the guard, then
\* GET login_page.html.
LoginCall(interval) ==
    /\ Ready
    /\ (~logged_in /\ interval # 0) => FreeKeepAlive # {}
    /\ UNCHANGED <<logged_in, keepalive, updates, stop_updates, ka, up>>
    /\ IF logged_in
       THEN ctl' = Returned(Call("login", <<interval>>), "AlreadyAuthenticated")
       ELSE ctl' = [Call("login", <<interval>>) EXCEPT
                       !.pc = "login_page",
                       !.reqs = <<Req("login_page.html", <<>>)>>]

\* What the panel may answer to GET login_page.html: a page with the
\* 'loginaff' marker, a page without it, or no answer (requests raises).
LoginPages == {"loginaff", "other", "raise"}

\* lines 176-191: the login page arrives; the salt is cut out, the
\* credentials are computed and GET default.html is issued.
LoginPage(page) ==
    /\ ctl.pc = "login_page"
    /\ UNCHANGED <<logged_in, keepalive, updates, stop_updates, ka, up>>
    /\ LET f == [ctl EXCEPT !.resps = Append(@, page)]
       IN CASE page = "raise" -> ctl' = Returned(f, "RequestException")
            [] page = "other" -> ctl' = Returned(f, "ProtocolError")
            [] page = "loginaff" ->
                  ctl' = [f EXCEPT
                             !.pc = "login_creds",
                             !.reqs = Append(@, Req("default.html", <<"p", "u">>))]

\* What the panel may answer to the credentials: the redirect to the login
\* page, any other page, or no answer.
DefaultPages == {"redirect", "other", "raise"}

\* LoginCreds with the KeepAlive started and _logged_in set before the
\* answer is looked at.
LoginCreds_StartFirst(page) ==
    /\ ctl.pc = "login_creds"
    /\ UNCHANGED <<updates, stop_updates, up>>
    /\ LET f == [ctl EXCEPT !.resps = Append(@, page)]
           keep_alive_interval == ctl.arg[1]
       IN /\ IF keep_alive_interval # 0
             THEN /\ keepalive' = NewKeepAlive
                  /\ ka' = [ka EXCEPT ![NewKeepAlive] =
                               [pc |-> "wait", stopped |-> FALSE]]
             ELSE UNCHANGED <<keepalive, ka>>
          /\ logged_in' = TRUE
          /\ ctl' = Returned(
                 [f EXCEPT !.started =
                     IF keep_alive_interval # 0
                     THEN <<[kind |-> "KeepAlive", id |-> NewKeepAlive,
                             args |-> <<keep_alive_interval>>]>>
                     ELSE <<>>],
                 CASE page = "raise" -> "RequestException"
                   [] page = "redirect" -> "AuthenticationFailed"
                   [] page = "other" -> "ok")

\* LoginCreds with the test `if keep_alive_interval` left out.
LoginCreds_AlwaysKeepAlive(page) ==
    /\ ctl.pc = "login_creds"
    /\ UNCHANGED <<updates, stop_updates, up>>
    /\ LET f == [ctl EXCEPT !.resps = Append(@, page)]
           keep_alive_interval == ctl.arg[1]
       IN CASE page = "raise" ->
                  /\ UNCHANGED <<logged_in, keepalive, ka>>
                  /\ ctl' = Returned(f, "RequestException")
            [] page = "redirect" ->
                  /\ UNCHANGED <<logged_in, keepalive, ka>>
                  /\ ctl' = Returned(f, "AuthenticationFailed")
            [] page = "other" ->
                  /\ FreeKeepAlive # {}
                  /\ keepalive' = NewKeepAlive
                  /\ ka' = [ka EXCEPT ![NewKeepAlive] =
                               [pc |-> "wait", stopped |-> FALSE]]
                  /\ logged_in' = TRUE
                  /\ ctl' = Returned(
                         [f EXCEPT !.started =
                             <<[kind |-> "KeepAlive", id |-> NewKeepAlive,
                                args |-> <<keep_alive_interval>>]>>],
                         "ok")

\* lines 190-203: the answer to the credentials arrives; on success, after
\* time.sleep(3), the KeepAlive is created and started and _logged_in is set.
LoginCreds(page) ==
    /\ ctl.pc = "login_creds"
    /\ UNCHANGED <<updates, stop_updates, up>>
    /\ LET f == [ctl EXCEPT !.resps = Append(@, page)]
           keep_alive_interval == ctl.arg[1]
       IN CASE page = "raise" ->
                  /\ UNCHANGED <<logged_in, keepalive, ka>>
                  /\ ctl' = Returned(f, "RequestException")
            [] page = "redirect" ->
                  /\ UNCHANGED <<logged_in, keepalive, ka>>
                  /\ ctl' = Returned(f, "AuthenticationFailed")
            [] page = "other" ->
                  /\ IF keep_alive_interval # 0
                     THEN /\ keepalive' = NewKeepAlive
                          /\ ka' = [ka EXCEPT ![NewKeepAlive] =
                                       [pc |-> "wait", stopped |-> FALSE]]
                     ELSE UNCHANGED <<keepalive, ka>>
                  /\ logged_in' = TRUE
                  /\ ctl' = Returned(
                         [f EXCEPT !.started =
                             IF keep_alive_interval # 0
                             THEN <<[kind |-> "KeepAlive", id |-> NewKeepAlive,
                                     args |-> <<keep_alive_interval>>]>>
                             ELSE <<>>],
                         "ok")

\* logout() that leaves the KeepAlive alone: neither cancelled and joined
\* nor its handle dropped.
LogoutCall_KeepsKeepAlive ==
    /\ Ready
    /\ UNCHANGED <<logged_in, keepalive, updates, stop_updates, ka, up>>
    /\ IF ~logged_in
       THEN ctl' = Returned(Call("logout", <<>>), "NotAuthenticated")
       ELSE ctl' = [Call("logout", <<>>) EXCEPT !.pc = "logout_updates"]

\* --------------------------------------------------------------- logout
\* logout(), lines 205-213: the guard of _logged_only, then
\* self._keepalive.cancel() when there is a keepalive.
LogoutCall ==
    /\ Ready
    /\ UNCHANGED <<logged_in, keepalive, updates, stop_updates, up>>
    /\ IF ~logged_in
       THEN /\ UNCHANGED ka
            /\ ctl' = Returned(Call("logout", <<>>), "NotAuthenticated")
       ELSE IF keepalive # None
            THEN /\ ka' = [ka EXCEPT ![keepalive].stopped = TRUE]
                 /\ ctl' = [Call("logout", <<>>) EXCEPT
                               !.pc = "logout_join", !.sig = {"stopped"}]
            ELSE /\ UNCHANGED ka
                 /\ ctl' = [Call("logout", <<>>) EXCEPT !.pc = "logout_updates"]

\* LogoutJoin with self._keepalive.join() left out.
LogoutJoin_NoWait ==
    /\ ctl.pc = "logout_join"
    /\ keepalive' = None
    /\ ka' = KeepAliveDropped(keepalive)
    /\ ctl' = [ctl EXCEPT !.pc = "logout_updates"]
    /\ UNCHANGED <<logged_in, updates, stop_updates, up>>

\* lines 214-215: self._keepalive.join() returns once the thread has ended;
\* then the handle is dropped.
LogoutJoin ==
    /\ ctl.pc = "logout_join"
    /\ ka[keepalive].pc = "done"
    /\ keepalive' = None
    /\ ka' = KeepAliveDropped(keepalive)
    /\ ctl' = [ctl EXCEPT !.pc = "logout_updates"]
    /\ UNCHANGED <<logged_in, updates, stop_updates, up>>

\* LogoutUpdates with `self._updates = None` left out.
LogoutUpdates_KeepHandle ==
    /\ ctl.pc = "logout_updates"
    /\ IF updates # None
       THEN /\ stop_updates' = TRUE
            /\ up' = Notified(up)
            /\ ctl' = [ctl EXCEPT
                          !.pc = "logout_http",
                          !.sig = @ \cup {"stop_updates"},
                          !.reqs = Append(@, Req("logout.html", <<>>))]
       ELSE /\ UNCHANGED <<stop_updates, up>>
            /\ ctl' = [ctl EXCEPT
                          !.pc = "logout_http",
                          !.reqs = Append(@, Req("logout.html", <<>>))]
    /\ UNCHANGED <<logged_in, keepalive, updates, ka>>

\* lines 216-219: the poller, when attached, is signalled and its handle
\* dropped; then GET logout.html is issued.
LogoutUpdates ==
    /\ ctl.pc = "logout_updates"
    /\ IF updates # None
       THEN /\ stop_updates' = TRUE
            /\ up' = UpdatesDropped(Notified(up), updates)
            /\ updates' = None
            /\ ctl' = [ctl EXCEPT
                          !.pc = "logout_http",
                          !.sig = @ \cup {"stop_updates"},
                          !.reqs = Append(@, Req("logout.html", <<>>))]
       ELSE /\ UNCHANGED <<stop_updates, up, updates>>
            /\ ctl' = [ctl EXCEPT
                          !.pc = "logout_http",
                          !.reqs = Append(@, Req("logout.html", <<>>))]
    /\ UNCHANGED <<logged_in, keepalive, ka>>

\* What a request may come back with: status 200, another status, or an
\* exception of requests.
Statuses == {"200", "404", "raise"}

\* LogoutResponse with _logged_in cleared before the status is checked.
LogoutResponse_ClearFirst(status) ==
    /\ ctl.pc = "logout_http"
    /\ UNCHANGED <<keepalive, updates, stop_updates, ka, up>>
    /\ LET f == [ctl EXCEPT !.resps = Append(@, status)]
       IN CASE status = "raise" ->
                  /\ UNCHANGED logged_in
                  /\ ctl' = Returned(f, "RequestException")
            [] status = "404" ->
                  /\ logged_in' = FALSE
                  /\ ctl' = Returned(f, "HttpFailure")
            [] status = "200" ->
                  /\ logged_in' = FALSE
                  /\ ctl' = Returned(f, "ok")

\* lines 219-223: the answer to GET logout.html.
LogoutResponse(status) ==
    /\ ctl.pc = "logout_http"
    /\ UNCHANGED <<keepalive, updates, stop_updates, ka, up>>
    /\ LET f == [ctl EXCEPT !.resps = Append(@, status)]
       IN CASE status = "raise" ->
                  /\ UNCHANGED logged_in
                  /\ ctl' = Returned(f, "RequestException")
            [] status = "404" ->
                  /\ UNCHANGED logged_in
                  /\ ctl' = Returned(f, "HttpFailure")
            [] status = "200" ->
                  /\ logged_in' = FALSE
                  /\ ctl' = Returned(f, "ok")

\* ------------------------------------------------------------- get_info
\* What get_info() may meet once its request is out: a valid status page,
\* requests.exceptions.Timeout, a page without the form 'statuslive', a
\* script without the array declaration (re.search gives None), a raw code
\* missing from the map (KeyError), or a connection failure of requests.
InfoOutcomes == {"ok", "timeout", "noform", "nomatch", "badcode", "connection"}

\* The failures get_info() raises as Paradox_IP150_Error (lines 239-243);
\* the others leave it as exceptions of another class.
IsParadoxError(o) == o \in {"timeout", "noform"}

InfoError(o) ==
    CASE o = "ok" -> "ok"
      [] o = "timeout" -> "Timeout"
      [] o = "noform" -> "ProtocolError"
      [] o = "nomatch" -> "AttributeError"
      [] o = "badcode" -> "KeyError"
      [] o = "connection" -> "RequestException"

\* get_info() called by the control thread, lines 233-253: the guard of
\* _logged_only, then GET statuslive.html; the answer is parsed and
\* returned, or an error raised.  The call reads and writes nothing of the
\* session after its guard, so the round trip is one step.
GetInfo(o) ==
    /\ Ready
    /\ UNCHANGED <<logged_in, keepalive, updates, stop_updates, ka, up>>
    /\ IF ~logged_in
       THEN ctl' = Returned(Call("get_info", <<>>), "NotAuthenticated")
       ELSE ctl' = Returned(
                [Call("get_info", <<>>) EXCEPT
                    !.reqs = <<Req("statuslive.html", <<>>)>>,
                    !.resps = <<o>>],
                InfoError(o))

\* ------------------------------------------------------ set_area_action
\* _areas_action_map, lines 94-100
areas_action_map ==
    [a \in {"Disarm", "Arm", "Arm_sleep", "Arm_stay"} |->
        CASE a = "Disarm" -> "d"
          [] a = "Arm" -> "r"
          [] a = "Arm_sleep" -> "p"
          [] a = "Arm_stay" -> "s"]

\* f'{area:02d}' for 0 <= area: the decimal digits, at least two of them.
RECURSIVE Digits(_)
Digits(n) == IF n < 10 THEN <<n>> ELSE Append(Digits(n \div 10), n % 10)

Format02d(n) == IF n < 10 THEN <<0, n>> ELSE Digits(n)

\* The decimal digits int() reads.
DigitOf ==
    [c \in {"0", "1", "2", "3", "4", "5", "6", "7", "8", "9"} |->
        CASE c = "0" -> 0 [] c = "1" -> 1 [] c = "2" -> 2 [] c = "3" -> 3
          [] c = "4" -> 4 [] c = "5" -> 5 [] c = "6" -> 6 [] c = "7" -> 7
          [] c = "8" -> 8 [] c = "9" -> 9]

\* int(area) for a str of decimal digits; of any other str it raises
\* ValueError.
IsDecimal(text) ==
    text # <<>> /\ \A k \in 1..Len(text) : text[k] \in DOMAIN DigitOf

RECURSIVE ParseInt(_)
ParseInt(text) ==
    IF text = <<>>
    THEN 0
    ELSE 10 * ParseInt(SubSeq(text, 1, Len(text) - 1)) + DigitOf[text[Len(text)]]

\* lines 336-337: if isinstance(area, str): area = int(area)
AreaInt(area) == IF area.str THEN ParseInt(area.text) ELSE area.int

\* AreaIndex without the decrement.
AreaIndex_NoOffset(area) == AreaInt(area)

\* line 338: area -= 1
AreaIndex(area) == AreaInt(area) - 1

\* The keys of _areas_action_map in the order of lines 96-99, as
\* list(self._areas_action_map.keys()) gives them.
areas_action_keys == <<"Disarm", "Arm", "Arm_sleep", "Arm_stay">>

\* SetAreaAction with the action validated before the area.
SetAreaAction_ActionFirst(area, action, status) ==
    /\ Ready
    /\ UNCHANGED <<logged_in, keepalive, updates, stop_updates, ka, up>>
    /\ LET f == Call("set_area_action", <<area, action>>)
       IN CASE ~logged_in -> ctl' = Returned(f, "NotAuthenticated")
            [] logged_in /\ area.str /\ ~IsDecimal(area.text) ->
                  ctl' = Returned(f, "ValueError")
            [] OTHER ->
                  IF action \notin DOMAIN areas_action_map
                  THEN ctl' = Returned([f EXCEPT !.detail = areas_action_keys],
                                       "InvalidArgument_action")
                  ELSE IF AreaIndex(area) < 0
                  THEN ctl' = Returned(f, "InvalidArgument_area")
                  ELSE ctl' = Returned(
                      [f EXCEPT
                          !.reqs =
                              <<Req("statuslive.html",
                                    <<Format02d(AreaIndex(area)),
                                      areas_action_map[action]>>)>>,
                          !.resps = <<status>>],
                      CASE status = "200" -> "ok"
                        [] status = "404" -> "HttpFailure"
                        [] status = "raise" -> "RequestException")

\* set_area_action(area, action), lines 333-353: the guard, the conversion
\* of a str, the two validations, then GET statuslive.html with the area and
\* the code, and the check of the status.  As in get_info, the round trip is
\* one step.
SetAreaAction(area, action, status) ==
    /\ Ready
    /\ UNCHANGED <<logged_in, keepalive, updates, stop_updates, ka, up>>
    /\ LET f == Call("set_area_action", <<area, action>>)
       IN CASE ~logged_in -> ctl' = Returned(f, "NotAuthenticated")
            [] logged_in /\ area.str /\ ~IsDecimal(area.text) ->
                  ctl' = Returned(f, "ValueError")
            [] OTHER ->
                  IF AreaIndex(area) < 0
                  THEN ctl' = Returned(f, "InvalidArgument_area")
                  ELSE IF action \notin DOMAIN areas_action_map
                  THEN ctl' = Returned([f EXCEPT !.detail = areas_action_keys],
                                       "InvalidArgument_action")
                  ELSE ctl' = Returned(
                      [f EXCEPT
                          !.reqs =
                              <<Req("statuslive.html",
                                    <<Format02d(AreaIndex(area)),
                                      areas_action_map[action]>>)>>,
                          !.resps = <<status>>],
                      CASE status = "200" -> "ok"
                        [] status = "404" -> "HttpFailure"
                        [] status = "raise" -> "RequestException")

\* ------------------------------------------- get_updates, cancel_updates
\* GetUpdates with the arguments validated before the guard of
\* _logged_only.
GetUpdates_ValidateFirst(on_update, on_error, poll_interval) ==
    /\ Ready
    /\ UNCHANGED <<logged_in, keepalive, stop_updates, ka>>
    /\ LET f == Call("get_updates", <<on_update, poll_interval>>)
       IN CASE ~on_update ->
                  /\ UNCHANGED <<updates, up>>
                  /\ ctl' = Returned(f, "InvalidArgument_on_update")
            [] on_update /\ poll_interval <= 0 ->
                  /\ UNCHANGED <<updates, up>>
                  /\ ctl' = Returned(f, "InvalidArgument_poll_interval")
            [] on_update /\ poll_interval > 0 /\ ~logged_in ->
                  /\ UNCHANGED <<updates, up>>
                  /\ ctl' = Returned(f, "NotAuthenticated")
            [] on_update /\ poll_interval > 0 /\ logged_in /\ updates # None ->
                  /\ UNCHANGED <<updates, up>>
                  /\ ctl' = Returned(f, "PollerAlreadyRunning")
            [] OTHER ->
                  /\ FreeUpdates # {}
                  /\ updates' = NewUpdates
                  /\ up' = [up EXCEPT ![NewUpdates] =
                               [pc |-> "wait", retry_count |-> 0]]
                  /\ ctl' = Returned(
                         [f EXCEPT !.started =
                             <<[kind |-> "_updates", id |-> NewUpdates,
                                args |-> <<on_update, on_error, poll_interval>>]>>],
                         "ok")

\* GetUpdates with the test `if self._updates is not None` left out.
GetUpdates_NoAttachedCheck(on_update, on_error, poll_interval) ==
    /\ Ready
    /\ UNCHANGED <<logged_in, keepalive, stop_updates, ka>>
    /\ LET f == Call("get_updates", <<on_update, poll_interval>>)
       IN CASE ~logged_in ->
                  /\ UNCHANGED <<updates, up>>
                  /\ ctl' = Returned(f, "NotAuthenticated")
            [] logged_in /\ ~on_update ->
                  /\ UNCHANGED <<updates, up>>
                  /\ ctl' = Returned(f, "InvalidArgument_on_update")
            [] logged_in /\ on_update /\ poll_interval <= 0 ->
                  /\ UNCHANGED <<updates, up>>
                  /\ ctl' = Returned(f, "InvalidArgument_poll_interval")
            [] OTHER ->
                  /\ FreeUpdates # {}
                  /\ updates' = NewUpdates
                  /\ up' = [up EXCEPT ![NewUpdates] =
                               [pc |-> "wait", retry_count |-> 0]]
                  /\ ctl' = Returned(
                         [f EXCEPT !.started =
                             <<[kind |-> "_updates", id |-> NewUpdates,
                                args |-> <<on_update, on_error, poll_interval>>]>>],
                         "ok")

\* get_updates(on_update, on_error, userdata, poll_interval), lines 303-320.
\* on_update and on_error say whether a callable was given.
GetUpdates(on_update, on_error, poll_interval) ==
    /\ Ready
    /\ UNCHANGED <<logged_in, keepalive, stop_updates, ka>>
    /\ LET f == Call("get_updates", <<on_update, poll_interval>>)
       IN CASE ~logged_in ->
                  /\ UNCHANGED <<updates, up>>
                  /\ ctl' = Returned(f, "NotAuthenticated")
            [] logged_in /\ ~on_update ->
                  /\ UNCHANGED <<updates, up>>
                  /\ ctl' = Returned(f, "InvalidArgument_on_update")
            [] logged_in /\ on_update /\ poll_interval <= 0 ->
                  /\ UNCHANGED <<updates, up>>
                  /\ ctl' = Returned(f, "InvalidArgument_poll_interval")
            [] logged_in /\ on_update /\ poll_interval > 0 /\ updates # None ->
                  /\ UNCHANGED <<updates, up>>
                  /\ ctl' = Returned(f, "PollerAlreadyRunning")
            [] OTHER ->
                  /\ FreeUpdates # {}
                  /\ updates' = NewUpdates
                  /\ up' = [up EXCEPT ![NewUpdates] =
                               [pc |-> "wait", retry_count |-> 0]]
                  /\ ctl' = Returned(
                         [f EXCEPT !.started =
                             <<[kind |-> "_updates", id |-> NewUpdates,
                                args |-> <<on_update, on_error, poll_interval>>]>>],
                         "ok")

\* CancelUpdates with the Event set before the handle is tested.
CancelUpdates_SetFirst ==
    /\ Ready
    /\ UNCHANGED <<logged_in, keepalive, ka>>
    /\ LET f == Call("cancel_updates", <<>>)
       IN CASE ~logged_in ->
                  /\ UNCHANGED <<updates, stop_updates, up>>
                  /\ ctl' = Returned(f, "NotAuthenticated")
            [] logged_in /\ updates = None ->
                  /\ stop_updates' = TRUE
                  /\ up' = Notified(up)
                  /\ UNCHANGED updates
                  /\ ctl' = Returned([f EXCEPT !.sig = {"stop_updates"}],
                                     "PollerNotRunning")
            [] OTHER ->
                  /\ stop_updates' = TRUE
                  /\ up' = UpdatesDropped(Notified(up), updates)
                  /\ updates' = None
                  /\ ctl' = Returned([f EXCEPT !.sig = {"stop_updates"}], "ok")

\* cancel_updates(), lines 322-331.
CancelUpdates ==
    /\ Ready
    /\ UNCHANGED <<logged_in, keepalive, ka>>
    /\ LET f == Call("cancel_updates", <<>>)
       IN CASE ~logged_in ->
                  /\ UNCHANGED <<updates, stop_updates, up>>
                  /\ ctl' = Returned(f, "NotAuthenticated")
            [] logged_in /\ updates = None ->
                  /\ UNCHANGED <<updates, stop_updates, up>>
                  /\ ctl' = Returned(f, "PollerNotRunning")
            [] OTHER ->
                  /\ stop_updates' = TRUE
                  /\ up' = UpdatesDropped(Notified(up), updates)
                  /\ updates' = None
                  /\ ctl' = Returned([f EXCEPT !.sig = {"stop_updates"}], "ok")

\* ------------------------------------------------------ KeepAlive.run()
\* KeepAliveWait with the Event not looked at: the interval passes and the
\* next request is sent.
KeepAliveWait_IgnoresStop(i) ==
    /\ Running
    /\ ka[i].pc = "wait"
    /\ ka' = [ka EXCEPT ![i].pc = "req"]
    /\ UNCHANGED <<logged_in, keepalive, updates, stop_updates, up, ctl>>

\* line 36: self.stopped.wait(self.interval) returns True when the Event is
\* set, which ends run(); otherwise the interval passes and _one_keepalive()
\* issues GET keep_alive.html.
KeepAliveWait(i) ==
    /\ Running
    /\ ka[i].pc = "wait"
    /\ ka' = IF ka[i].stopped
             THEN KeepAliveEnded(i)
             ELSE [ka EXCEPT ![i].pc = "req"]
    /\ UNCHANGED <<logged_in, keepalive, updates, stop_updates, up, ctl>>

\* lines 30-37: requests.get returns (whatever the status) and the loop goes
\* on, or it raises and the exception ends run().
KeepAliveResponse(i, raises) ==
    /\ Running
    /\ ka[i].pc = "req"
    /\ ka' = IF raises
             THEN KeepAliveEnded(i)
             ELSE [ka EXCEPT ![i].pc = "wait"]
    /\ UNCHANGED <<logged_in, keepalive, updates, stop_updates, up, ctl>>

\* --------------------------------------------------------- _get_updates
\* line 264: self._stop_updates.wait(interval) is entered.  With the flag
\* set it returns True at once and the loop ends; otherwise the thread
\* blocks.
Waits(t) == IF stop_updates THEN LoopEnded(t) ELSE [t EXCEPT !.pc = "blocked"]

UpdatesWait(i) ==
    /\ Running
    /\ up[i].pc = "wait"
    /\ up' = [up EXCEPT ![i] = Waits(@)]
    /\ UNCHANGED <<logged_in, keepalive, updates, stop_updates, ka, ctl>>

\* lines 267-273: get_info() raised Paradox_IP150_Error at its guard: the
\* failure is counted and, below the bound, `continue` leads back to wait().
UpdatesRetry(t) ==
    IF t.retry_count + 1 > max_retry_count
    THEN [t EXCEPT !.retry_count = @ + 1, !.pc = "exc"]
    ELSE [t EXCEPT !.retry_count = @ + 1, !.pc = "wait"]

\* UpdatesTick without the guard of _logged_only: the request goes out
\* whether the session is logged in or not.
UpdatesTick_NoGuard(i) ==
    /\ Running
    /\ up[i].pc = "blocked"
    /\ up' = [up EXCEPT ![i].pc = "fetch"]
    /\ UNCHANGED <<logged_in, keepalive, updates, stop_updates, ka, ctl>>

\* lines 264-266: the interval passes, wait() returns False and get_info()
\* is called: its guard raises when not logged in, otherwise the request is
\* issued.
UpdatesTick(i) ==
    /\ Running
    /\ up[i].pc = "blocked"
    /\ up' = [up EXCEPT ![i] =
                 IF ~logged_in THEN UpdatesRetry(@) ELSE [@ EXCEPT !.pc = "fetch"]]
    /\ UNCHANGED <<logged_in, keepalive, updates, stop_updates, ka, ctl>>

\* UpdatesRetryWaits giving up when the count reaches the bound.
UpdatesRetryWaits_AtBound(t) ==
    IF t.retry_count + 1 >= max_retry_count
    THEN [t EXCEPT !.retry_count = @ + 1, !.pc = "exc"]
    ELSE Waits([t EXCEPT !.retry_count = @ + 1])

\* lines 267-273 for a request that was out: the failure is counted and,
\* below the bound, `continue` re-enters wait() (as in UpdatesWait).
UpdatesRetryWaits(t) ==
    IF t.retry_count + 1 > max_retry_count
    THEN [t EXCEPT !.retry_count = @ + 1, !.pc = "exc"]
    ELSE Waits([t EXCEPT !.retry_count = @ + 1])

\* What a tick may meet once its request is out: the outcomes of get_info(),
\* the snapshot being equal to the previous one (no callback), or different,
\* and then on_update returns or raises.
TickOutcomes ==
    (InfoOutcomes \ {"ok"}) \cup {"ok_same", "ok_changed", "ok_on_update_raises"}

\* lines 264-293: get_info() returns or raises.  A snapshot resets
\* retry_count; an exception that is no Paradox_IP150_Error, from get_info()
\* or from on_update, leaves the loop for the handler.  What follows the
\* answer touches only the thread's locals, up to the next wait(): the step
\* ends with the thread inside wait(), or past it when the flag is set.
UpdatesResponse(i, o) ==
    /\ Running
    /\ up[i].pc = "fetch"
    /\ up' = [up EXCEPT ![i] =
                 CASE o \in {"ok_same", "ok_changed"} ->
                         Waits([@ EXCEPT !.retry_count = 0])
                   [] o = "ok_on_update_raises" ->
                         [@ EXCEPT !.retry_count = 0, !.pc = "exc"]
                   [] IsParadoxError(o) -> UpdatesRetryWaits(@)
                   [] OTHER -> [@ EXCEPT !.pc = "exc"]]
    /\ UNCHANGED <<logged_in, keepalive, updates, stop_updates, ka, ctl>>

\* lines 294-299: the handler calls on_error when one was given.
UpdatesError(i) ==
    /\ Running
    /\ up[i].pc = "exc"
    /\ up' = [up EXCEPT ![i].pc = "fin"]
    /\ UNCHANGED <<logged_in, keepalive, updates, stop_updates, ka, ctl>>

\* UpdatesFinally emptying the handle that refers to the ending thread.
UpdatesFinally_DropsHandle(i) ==
    /\ Running
    /\ up[i].pc = "fin"
    /\ stop_updates' = FALSE
    /\ up' = [up EXCEPT ![i] = NoUpdates]
    /\ updates' = IF updates = i THEN None ELSE updates
    /\ UNCHANGED <<logged_in, keepalive, ka, ctl>>

\* UpdatesFinally without the clear().
UpdatesFinally_NoClear(i) ==
    /\ Running
    /\ up[i].pc = "fin"
    /\ up' = UpdatesEnded(i)
    /\ UNCHANGED <<logged_in, keepalive, updates, stop_updates, ka, ctl>>

\* lines 300-301: finally, self._stop_updates.clear(); the thread ends.
UpdatesFinally(i) ==
    /\ Running
    /\ up[i].pc = "fin"
    /\ stop_updates' = FALSE
    /\ up' = UpdatesEnded(i)
    /\ UNCHANGED <<logged_in, keepalive, updates, ka, ctl>>

\* The caller goes on after a call has returned.
Resume ==
    /\ ctl.pc = "ret"
    /\ ctl' = Idle
    /\ UNCHANGED <<logged_in, keepalive, updates, stop_updates, ka, up>>

\* ------------------------------------------------------- specification
Next ==
    \/ \E interval \in KeepAliveIntervals : LoginCall(interval)
    \/ \E page \in LoginPages : LoginPage(page)
    \/ \E page \in DefaultPages : LoginCreds(page)
    \/ LogoutCall
    \/ LogoutJoin
    \/ LogoutUpdates
    \/ \E status \in Statuses : LogoutResponse(status)
    \/ \E o \in InfoOutcomes : GetInfo(o)
    \/ \E area \in Areas, action \in Actions, status \in Statuses :
          SetAreaAction(area, action, status)
    \/ \E on_update \in BOOLEAN, on_error \in BOOLEAN, interval \in PollIntervals :
          GetUpdates(on_update, on_error, interval)
    \/ CancelUpdates
    \/ Resume
    \/ \E i \in KeepAliveIds : KeepAliveWait(i)
    \/ \E i \in KeepAliveIds, raises \in BOOLEAN : KeepAliveResponse(i, raises)
    \/ \E i \in UpdatesIds : UpdatesWait(i)
    \/ \E i \in UpdatesIds : UpdatesTick(i)
    \/ \E i \in UpdatesIds, o \in TickOutcomes : UpdatesResponse(i, o)
    \/ \E i \in UpdatesIds : UpdatesError(i)
    \/ \E i \in UpdatesIds : UpdatesFinally(i)

Spec == Init /\ [][Next]_vars

\* ------------------------------------------ the body of _get_updates
\* Spec keeps of a poller thread only where it is and retry_count.  Body
\* follows one thread through _get_updates with its snapshots and its
\* callbacks: the session is logged in, get_updates() has just started the
\* thread, and the caller may cancel_updates().

\* Bound: the zones a status page lists.
MaxZones == 2

\* The keys of _tables_map, lines 47-92, and some of the names its maps give.
Categories == {"zones_status", "areas_status"}
ZoneNames == {"Closed", "Open"}
AreaNames == {"Disarmed", "Armed"}

Min(a, b) == IF a <= b THEN a ELSE b

\* enumerate() counting from zero.
Enumerate_FromZero(names) == [k \in 1..Len(names) |-> <<k - 1, names[k]>>]

\* line 252: [(i, map[x]) for i, x in enumerate(tmp, start=1)]
Enumerate(names) == [k \in 1..Len(names) |-> <<k, names[k]>>]

ZoneLists ==
    UNION {[1..n -> ZoneNames] : n \in 1..MaxZones}
AreaLists == [1..1 -> AreaNames]

\* What get_info() may return, lines 246-253: a dict with both categories.
Snapshots ==
    {[d1 \in Categories |->
         IF d1 = "zones_status" THEN Enumerate(z) ELSE Enumerate(a)] :
       z \in ZoneLists, a \in AreaLists}

\* The snapshots of a panel with one zone: the runs of Body are followed on
\* such a panel.
OneZone == {s \in Snapshots : Len(s["zones_status"]) = 1}

\* line 261: prev_state = {}
NoState == [d1 \in {} |-> <<>>]

\* ZipChanged going through every entry of cur, one without a partner in
\* prev counted as changed.
RECURSIVE ZipChanged_EveryCurrent(_, _, _)
ZipChanged_EveryCurrent(cur, prev, k) ==
    IF k > Len(cur)
    THEN <<>>
    ELSE (IF k > Len(prev) \/ cur[k] # prev[k] THEN <<cur[k]>> ELSE <<>>)
            \o ZipChanged_EveryCurrent(cur, prev, k + 1)

\* lines 280-286 for one category: zip() pairs the entries up to the shorter
\* list, and the current entry of every pair that differs is appended.
RECURSIVE ZipChanged(_, _, _)
ZipChanged(cur, prev, k) ==
    IF k > Min(Len(cur), Len(prev))
    THEN <<>>
    ELSE (IF cur[k] # prev[k] THEN <<cur[k]>> ELSE <<>>)
            \o ZipChanged(cur, prev, k + 1)

\* UpdatedState in which a category with a change is reported whole.
UpdatedState_WholeCategory(prev_state, cur_state) ==
    LET hit == {d1 \in DOMAIN cur_state :
                   \/ d1 \notin DOMAIN prev_state
                   \/ ZipChanged(cur_state[d1], prev_state[d1], 1) # <<>>}
    IN [d1 \in hit |-> cur_state[d1]]

\* lines 277-288: updated_state.  A category prev_state lacks is taken
\* whole; another gets a key only when an entry was appended.
UpdatedState(prev_state, cur_state) ==
    LET changed(d1) == ZipChanged(cur_state[d1], prev_state[d1], 1)
        keys == {d1 \in DOMAIN cur_state :
                    d1 \notin DOMAIN prev_state \/ changed(d1) # <<>>}
    IN [d1 \in keys |->
           IF d1 \in DOMAIN prev_state THEN changed(d1) ELSE cur_state[d1]]

\* A tick as an observer sees it: the snapshot before, the snapshot fetched
\* and the delta computed.
NoTick == [prev |-> NoState, cur |-> NoState, updated |-> NoState]

\* The thread get_updates() starts, lines 261-262 and 315-319.  Besides pc
\* and retry_count:
\*   prev_state  the local of that name;  on_error  whether one was given
\*   err         the exception the handler of line 294 has caught
\* and, for the observer:
\*   fails      failed fetches since the last successful one
\*   recovered  whether a successful fetch has followed a failed one
\*   last    how the last fetch ended;  tick  the last successful tick
\*   calls   the callbacks of the thread's last step, with their argument
\*   errors  the arguments of all calls of on_error
NewBody(on_error) ==
    [pc |-> "wait", retry_count |-> 0, prev_state |-> NoState,
     on_error |-> on_error, err |-> "none", fails |-> 0, recovered |-> FALSE,
     last |-> "none", tick |-> NoTick, calls |-> <<>>, errors |-> <<>>]

BodyInit ==
    /\ logged_in = TRUE
    /\ keepalive = None
    /\ updates = 1
    /\ stop_updates = FALSE
    /\ ka = [i \in KeepAliveIds |-> NoKeepAlive]
    /\ \E on_error \in BOOLEAN :
          up = [i \in UpdatesIds |-> IF i = 1 THEN NewBody(on_error) ELSE NoUpdates]
    /\ ctl = Idle

\* A failed fetch that forgets the snapshot kept.
Failed_ForgetsPrev(t, o) ==
    [t EXCEPT !.fails = @ + 1, !.last = o, !.calls = <<>>,
              !.prev_state = NoState]

\* A failed fetch, as the observer counts it.
Failed(t, o) ==
    [t EXCEPT !.fails = @ + 1, !.last = o, !.calls = <<>>]

\* lines 267-270: the error raised when the bound is passed.
Exhausted(t) ==
    IF t.pc = "exc" THEN [t EXCEPT !.err = "RetryExhausted"] ELSE t

\* Fetched with the count left as it is.
Fetched_NoReset(t) == t

\* lines 274-275: else: retry_count = 0
Fetched(t) == [t EXCEPT !.retry_count = 0]

\* A call of a callback: which one, the delta or the error passed, and
\* whether it raised.
CallOnUpdate(updated_state, raised) ==
    [cb |-> "on_update", arg |-> updated_state, error |-> "none",
     raised |-> raised]
CallOnError(error, raised) ==
    [cb |-> "on_error", arg |-> NoState, error |-> error, raised |-> raised]

\* OnUpdateCalls calling on_update on every successful tick.
OnUpdateCalls_Always(updated_state, raises) ==
    <<CallOnUpdate(updated_state, raises)>>

\* lines 290-291: if len(updated_state) > 0: on_update(updated_state, userdata)
OnUpdateCalls(updated_state, raises) ==
    IF DOMAIN updated_state # {}
    THEN <<CallOnUpdate(updated_state, raises)>>
    ELSE <<>>

\* lines 264-293 when get_info() returns cur_state: the count is reset, the
\* delta computed and on_update, when called, returns or raises.  Line 293
\* is reached only when nothing was raised.
BodyFetched(i, cur_state, raises) ==
    /\ Running
    /\ up[i].pc = "fetch"
    /\ LET t == up[i]
           updated_state == UpdatedState(t.prev_state, cur_state)
           calls == OnUpdateCalls(updated_state, raises)
           ticked == [Fetched(t) EXCEPT
                         !.fails = 0,
                         !.recovered = @ \/ t.fails > 0,
                         !.last = "ok",
                         !.tick = [prev |-> t.prev_state, cur |-> cur_state,
                                   updated |-> updated_state],
                         !.calls = calls]
       IN up' = [up EXCEPT ![i] =
                    IF calls # <<>> /\ raises
                    THEN [ticked EXCEPT !.pc = "exc", !.err = "CallbackError"]
                    ELSE Waits([ticked EXCEPT !.prev_state = cur_state])]
    /\ UNCHANGED <<logged_in, keepalive, updates, stop_updates, ka, ctl>>

\* lines 264-273 and 294 when get_info() raises o: a Paradox_IP150_Error is
\* counted and retried, another exception goes to the handler.
BodyFailed(i, o) ==
    /\ Running
    /\ up[i].pc = "fetch"
    /\ LET t == up[i]
       IN up' = [up EXCEPT ![i] =
                    IF IsParadoxError(o)
                    THEN Exhausted(UpdatesRetryWaits(Failed(t, o)))
                    ELSE [Failed(t, o) EXCEPT !.pc = "exc",
                                              !.err = InfoError(o)]]
    /\ UNCHANGED <<logged_in, keepalive, updates, stop_updates, ka, ctl>>

\* The handler with an on_error that raises taking the thread down at once,
\* past `finally`.
BodyError_Unwinds(i, raises) ==
    /\ Running
    /\ up[i].pc = "exc"
    /\ LET t == up[i]
       IN up' = [up EXCEPT ![i] =
                    IF t.on_error
                    THEN [t EXCEPT !.pc = IF raises THEN "done" ELSE "fin",
                                   !.calls = <<CallOnError(t.err, raises)>>,
                                   !.errors = Append(@, t.err)]
                    ELSE [t EXCEPT !.pc = "fin", !.calls = <<>>]]
    /\ UNCHANGED <<logged_in, keepalive, updates, stop_updates, ka, ctl>>

\* lines 294-299: the handler; on_error(e, userdata) is called when one was
\* given, and whether it returns or raises, `finally` is next.
BodyError(i, raises) ==
    /\ Running
    /\ up[i].pc = "exc"
    /\ LET t == up[i]
       IN up' = [up EXCEPT ![i] =
                    IF t.on_error
                    THEN [t EXCEPT !.pc = "fin",
                                   !.calls = <<CallOnError(t.err, raises)>>,
                                   !.errors = Append(@, t.err)]
                    ELSE [t EXCEPT !.pc = "fin", !.calls = <<>>]]
    /\ UNCHANGED <<logged_in, keepalive, updates, stop_updates, ka, ctl>>

BodyNext ==
    \/ \E i \in UpdatesIds : UpdatesWait(i)
    \/ \E i \in UpdatesIds : UpdatesTick(i)
    \/ \E i \in UpdatesIds, cur_state \in OneZone, raises \in BOOLEAN :
          BodyFetched(i, cur_state, raises)
    \/ \E i \in UpdatesIds, o \in InfoOutcomes \ {"ok"} : BodyFailed(i, o)
    \/ \E i \in UpdatesIds, raises \in BOOLEAN : BodyError(i, raises)
    \/ \E i \in UpdatesIds : UpdatesFinally(i)
    \/ CancelUpdates
    \/ Resume

BodySpec == BodyInit /\ [][BodyNext]_vars

\* One tick of _get_updates on every pair of snapshots: the thread is in
\* get_info() with any prev_state a run can have left, and the fetch
\* succeeds.
DeltaInit ==
    /\ logged_in = TRUE
    /\ keepalive = None
    /\ updates = 1
    /\ stop_updates = FALSE
    /\ ka = [i \in KeepAliveIds |-> NoKeepAlive]
    /\ \E on_error \in BOOLEAN, prev_state \in Snapshots \cup {NoState} :
          up = [i \in UpdatesIds |->
                   IF i = 1
                   THEN [NewBody(on_error) EXCEPT !.pc = "fetch",
                                                  !.prev_state = prev_state]
                   ELSE NoUpdates]
    /\ ctl = Idle

DeltaNext ==
    \E i \in UpdatesIds, cur_state \in Snapshots, raises \in BOOLEAN :
        BodyFetched(i, cur_state, raises)

DeltaSpec == DeltaInit /\ [][DeltaNext]_vars

\* ------------------------------------------------- set_area_action alone
\* set_area_action() on its arguments: ints around 0, at the change from one
\* digit to two and from two to three, and strs of digits or not.
AllAreas ==
    {IntArea(n) : n \in {-1, 0, 1, 2, 10, 11, 100, 101}}
        \cup {StrArea(text) : text \in {<<"0">>, <<"1">>, <<"0", "2">>,
                                         <<"1", "2">>, <<"x">>}}
AllActions == {"Disarm", "Arm", "Arm_sleep", "Arm_stay", "arm", "Bogus"}

\* A session logged out, or logged in with or without its threads.
ActionInit ==
    /\ logged_in \in BOOLEAN
    /\ stop_updates = FALSE
    /\ keepalive \in (IF logged_in THEN {None, 1} ELSE {None})
    /\ updates \in (IF logged_in THEN {None, 1} ELSE {None})
    /\ ka = [i \in KeepAliveIds |->
                IF i = keepalive THEN [NoKeepAlive EXCEPT !.pc = "wait"]
                ELSE NoKeepAlive]
    /\ up = [i \in UpdatesIds |->
                IF i = updates THEN [NoUpdates EXCEPT !.pc = "blocked"]
                ELSE NoUpdates]
    /\ ctl = Idle

ActionNext ==
    \/ \E area \in AllAreas, action \in AllActions, status \in Statuses :
          SetAreaAction(area, action, status)
    \/ Resume

ActionSpec == ActionInit /\ [][ActionNext]_vars

\* ============================================================= the cipher
\* _paradox_rc4 and what it is made of.  A Python str is a sequence of
\* one-character strings here, and ord() is a table over the characters the
\* inputs below are written with.

Chars ==
    <<"0", "1", "2", "3", "4", "5", "6", "7", "8", "9",
      "A", "B", "C", "D", "E", "F">>

\* ord(): "0".."9" are 48..57 and "A".."F" are 65..70.
Ord(ch) ==
    LET k == CHOOSE n \in 1..Len(Chars) : Chars[n] = ch
    IN  IF k <= 10 THEN 47 + k ELSE 54 + k

\* '{0:02X}'.format(x) for a byte x: two uppercase hexadecimal digits.
Format02X(x) == <<Chars[(x \div 16) + 1], Chars[(x % 16) + 1]>>

\* Python's ^ on two bytes.
RECURSIVE Xor(_, _)
Xor(a, b) ==
    IF a = 0 /\ b = 0
    THEN 0
    ELSE ((a + b) % 2) + 2 * Xor(a \div 2, b \div 2)

\* S[i], S[j] = S[j], S[i]
Swap(S, i, j) == [S EXCEPT ![i] = S[j], ![j] = S[i]]

\* S = list(range(256)); j = 0; no index visited yet.
KeyInit == [S |-> [n \in 0..255 |-> n], j |-> 0, steps |-> <<>>]

\* One pass of the first loop's body, for index i.  steps lists the values
\* i has taken.
KeyStep(key, i, st) ==
    LET j == (st.j + st.S[i] + Ord(key[i + 1])) % 256
    IN  [S |-> Swap(st.S, i, j), j |-> j, steps |-> Append(st.steps, i)]

\* The first loop taking its indices in ascending order, as standard RC4.
RECURSIVE KeySchedule_Ascending(_, _, _, _)
KeySchedule_Ascending(key, hi, lo, st) ==
    IF hi < lo
    THEN st
    ELSE IF hi = lo
         THEN KeyStep(key, lo, st)
         ELSE LET mid == (hi + lo + 1) \div 2
                  half == KeySchedule_Ascending(key, mid - 1, lo, st)
              IN  IF Len(half.steps) >= 0
                  THEN KeySchedule_Ascending(key, hi, mid, half)
                  ELSE half

\* for i in range(hi, lo - 1, -1): the passes for hi, hi - 1, ..., lo in
\* that order, the upper half of the range run to its end before the lower
\* half begins.
RECURSIVE KeySchedule(_, _, _, _)
KeySchedule(key, hi, lo, st) ==
    IF hi < lo
    THEN st
    ELSE IF hi = lo
         THEN KeyStep(key, hi, st)
         ELSE LET mid == (hi + lo + 1) \div 2
                  half == KeySchedule(key, hi, mid, st)
              IN  IF Len(half.steps) >= 0
                  THEN KeySchedule(key, mid - 1, lo, half)
                  ELSE half

\* One pass of the second loop's body with i advanced before it is used, as
\* standard RC4 does.
StreamStep_AdvanceFirst(ch, st) ==
    LET i == (st.i + 1) % 256
        j == (st.j + st.S[i]) % 256
        S == Swap(st.S, i, j)
    IN  [S |-> S, i |-> i, j |-> j,
         out |-> Append(st.out, Xor(Ord(ch), S[(S[i] + S[j]) % 256])),
         used |-> Append(st.used, i)]

\* One pass of the second loop's body, for character ch.  out is the list
\* of bytes, used lists the values i had when S was read.
StreamStep(ch, st) ==
    LET i == st.i % 256
        j == (st.j + st.S[i]) % 256
        S == Swap(st.S, i, j)
    IN  [S |-> S, i |-> i + 1, j |-> j,
         out |-> Append(st.out, Xor(Ord(ch), S[(S[i] + S[j]) % 256])),
         used |-> Append(st.used, i)]

\* for ch in data: the passes for characters lo..hi of data in that order,
\* the lower half of the range run to its end before the upper half begins.
RECURSIVE Stream(_, _, _, _)
Stream(data, lo, hi, st) ==
    IF hi < lo
    THEN st
    ELSE IF hi = lo
         THEN StreamStep(data[lo], st)
         ELSE LET mid == (lo + hi) \div 2
                  half == Stream(data, lo, mid, st)
              IN  IF Len(half.out) >= 0
                  THEN Stream(data, mid + 1, hi, half)
                  ELSE half

\* "".join(map(lambda x: '{0:02X}'.format(x), out))
Join(out) ==
    [n \in 1..(2 * Len(out)) |-> Format02X(out[(n + 1) \div 2])[((n - 1) % 2) + 1]]

\* _paradox_rc4(data, key): the text returned, with the indices the two
\* loops went through.
paradox_rc4(data, key) ==
    LET ks == KeySchedule(key, Len(key) - 1, 0, KeyInit)
        st == Stream(data, 1, Len(data),
                  [S |-> ks.S, i |-> 0, j |-> 0, out |-> <<>>, used |-> <<>>])
    IN  [text |-> Join(st.out), steps |-> ks.steps, used |-> st.used]

\* ------------------------------------------------- the cipher on its inputs
\* The user codes and keys the cipher is run on: every code of up to
\* MaxData digits, the code of the repository's test, and one code longer
\* than S; the test's key (an MD5 digest and a session id), two short keys
\* and the empty one.

MaxData == 3

CodeDigits == {"1", "2", "3", "4"}

RECURSIVE Codes(_)
Codes(n) ==
    IF n = 0
    THEN {<<>>}
    ELSE LET shorter == Codes(n - 1)
         IN  shorter \cup {Append(c, d) : c \in shorter, d \in CodeDigits}

TestCode == <<"1", "2", "3", "4">>

LongCode == [k \in 1..257 |-> "1"]

TestKey ==
    <<"0", "9", "8", "F", "6", "B", "C", "D", "4", "6", "2", "1",
      "D", "3", "7", "3", "C", "A", "D", "E", "4", "E", "8", "3",
      "2", "6", "2", "7", "B", "4", "F", "6", "7", "B", "B", "0",
      "A", "0", "C", "7", "8", "D", "0", "8", "A", "8", "C", "E">>

CipherData == Codes(MaxData) \cup {TestCode, LongCode}

CipherKeys == {TestKey, <<"A", "B">>, <<"7">>, <<>>}

\* One call of the static method: it touches nothing of the session.
ParadoxRc4(data, key) ==
    /\ Ready
    /\ UNCHANGED <<logged_in, keepalive, updates, stop_updates, ka, up>>
    /\ ctl' = Returned([Call("_paradox_rc4", <<data, key>>)
                           EXCEPT !.ret = paradox_rc4(data, key)], "ok")

CipherNext ==
    \/ \E data \in CipherData, key \in CipherKeys : ParadoxRc4(data, key)
    \/ Resume

CipherSpec == Init /\ [][CipherNext]_vars


\* ====================================================== the status decoder
\* get_info() on a page that has the statuslive form: what _js2array reads
\* from the script and what the comprehension of line 252 makes of it.

\* _tables_map['zones_status']['map'], lines 62-73
zones_status_map ==
    LET names == <<"Closed", "Open", "In_alarm", "Closed_Trouble",
                   "Open_Trouble", "Closed_Memory", "Open_Memory", "Bypass",
                   "Closed_Trouble2", "Open_Trouble2">>
    IN  [x \in 0..9 |-> names[x + 1]]

\* _tables_map['areas_status']['map'], lines 79-91
areas_status_map ==
    LET names == <<"Unset", "Disarmed", "Armed", "Triggered", "Armed_sleep",
                   "Armed_stay", "Entry_delay", "Exit_delay", "Ready",
                   "Not_ready", "Instant">>
    IN  [x \in 0..10 |-> names[x + 1]]

tables_map ==
    [d1 \in Categories |->
        IF d1 = "zones_status" THEN zones_status_map ELSE areas_status_map]

\* A lookup table[x] that raises KeyError.
Known(page) ==
    \A d1 \in Categories :
        \A k \in 1..Len(page[d1]) : page[d1][k] \in DOMAIN tables_map[d1]

\* lines 247-253: res[table] for each table, page[table] being the list
\* _js2array returned for it.
Decode(page) ==
    [d1 \in Categories |->
        Enumerate([k \in 1..Len(page[d1]) |-> tables_map[d1][page[d1][k]]])]

\* The arrays a status page declares: up to MaxRaw zones, and the areas of
\* the repository's tests among others.  A code of 10 is in no zone table
\* and a code of 11 in no area table.
MaxRaw == 3

RawZones == UNION {[1..n -> {0, 1, 9, 10}] : n \in 0..MaxRaw}

RawAreas == {<<9, 8, 0, 0>>, <<9, 9, 0, 0>>, <<10>>, <<11>>, <<>>}

StatusPages ==
    {[d1 \in Categories |-> IF d1 = "zones_status" THEN zones ELSE areas] :
        zones \in RawZones, areas \in RawAreas}

\* get_info() answered by a page with the form and both arrays.
GetInfoPage(page) ==
    /\ Ready
    /\ UNCHANGED <<logged_in, keepalive, updates, stop_updates, ka, up>>
    /\ IF ~logged_in
       THEN ctl' = Returned(Call("get_info", <<>>), "NotAuthenticated")
       ELSE LET o == IF Known(page) THEN "ok" ELSE "badcode"
                f == [Call("get_info", <<>>) EXCEPT
                         !.reqs = <<Req("statuslive.html", <<>>)>>,
                         !.resps = <<page>>]
            IN  ctl' = Returned(
                    IF o = "ok" THEN [f EXCEPT !.ret = Decode(page)] ELSE f,
                    InfoError(o))

InfoNext ==
    \/ \E page \in StatusPages : GetInfoPage(page)
    \/ Resume

InfoSpec == ActionInit /\ [][InfoNext]_vars

\* ============================================== the keepalive of a session
\* login() and logout() with the KeepAlive thread between them and the
\* caller's get_info() and set_area_action() beside it, and no poller.  A thread that can run is scheduled in the end, a request sent
\* gets its answer or its exception in the end, and a call in progress
\* goes on.

\* The next step of the KeepAlive thread i, wherever it is.
KeepAliveStep(i) ==
    \/ KeepAliveWait(i)
    \/ \E raises \in BOOLEAN : KeepAliveResponse(i, raises)

\* The next step of login() or logout() in progress, or the caller going on.
SessionProceeds ==
    \/ \E page \in LoginPages : LoginPage(page)
    \/ \E page \in DefaultPages : LoginCreds(page)
    \/ LogoutJoin
    \/ LogoutUpdates
    \/ \E status \in Statuses : LogoutResponse(status)
    \/ Resume

KeepNext ==
    \/ \E interval \in KeepAliveIntervals : LoginCall(interval)
    \/ \E o \in InfoOutcomes : GetInfo(o)
    \/ \E area \in Areas, action \in Actions, status \in Statuses :
          SetAreaAction(area, action, status)
    \/ LogoutCall
    \/ SessionProceeds
    \/ \E i \in KeepAliveIds : KeepAliveStep(i)

KeepSpec ==
    /\ Init
    /\ [][KeepNext]_vars
    /\ WF_vars(SessionProceeds)
    /\ \A i \in KeepAliveIds : SF_vars(KeepAliveStep(i))

\* ================================================= two calling threads
\* login(), get_updates() and cancel_updates() called on one session by two
\* threads at once (the bridge calls them from the MQTT client's thread and,
\* by on_error, from the poller's).  Here ctl holds one frame for each
\* caller, and a method is as many steps as it has reads and writes of the
\* session's fields that another thread's step can fall between.  The
\* threads started stay in their first wait().

Callers == {1, 2}

RaceInit ==
    /\ logged_in \in BOOLEAN
    /\ keepalive = None
    /\ updates = None
    /\ stop_updates = FALSE
    /\ ka = [i \in KeepAliveIds |-> NoKeepAlive]
    /\ up = [i \in UpdatesIds |-> NoUpdates]
    /\ ctl = [c \in Callers |-> Idle]

\* lines 171-176: `if self.logged_in: raise`, then the first request.
RaceLogin(c, interval) ==
    /\ ctl[c].pc = "idle"
    /\ UNCHANGED <<logged_in, keepalive, updates, stop_updates, ka, up>>
    /\ ctl' = [ctl EXCEPT ![c] =
                  IF logged_in
                  THEN Returned(Call("login", <<interval>>),
                                "AlreadyAuthenticated")
                  ELSE [Call("login", <<interval>>) EXCEPT
                           !.pc = "login_page",
                           !.reqs = <<Req("login_page.html", <<>>)>>]]

\* lines 176-203 with both pages answered: the credentials are refused, or
\* the KeepAlive is created and started and _logged_in set.
RaceLoggedIn(c, page) ==
    /\ ctl[c].pc = "login_page"
    /\ UNCHANGED <<updates, stop_updates, up>>
    /\ LET f == [ctl[c] EXCEPT !.resps = <<"loginaff", page>>]
           keep_alive_interval == ctl[c].arg[1]
       IN IF page = "redirect"
          THEN /\ UNCHANGED <<logged_in, keepalive, ka>>
               /\ ctl' = [ctl EXCEPT ![c] = Returned(f, "AuthenticationFailed")]
          ELSE /\ keep_alive_interval # 0 => FreeKeepAlive # {}
               /\ IF keep_alive_interval # 0
                  THEN /\ keepalive' = NewKeepAlive
                       /\ ka' = [ka EXCEPT ![NewKeepAlive] =
                                    [pc |-> "wait", stopped |-> FALSE]]
                  ELSE UNCHANGED <<keepalive, ka>>
               /\ logged_in' = TRUE
               /\ ctl' = [ctl EXCEPT ![c] = Returned(
                             [f EXCEPT !.started =
                                 IF keep_alive_interval # 0
                                 THEN <<[kind |-> "KeepAlive",
                                         id |-> NewKeepAlive,
                                         args |-> <<keep_alive_interval>>]>>
                                 ELSE <<>>],
                             "ok")]

\* lines 303-314: the guards of get_updates(), the last of them
\* `if self._updates is not None: raise`.
RaceGetUpdates(c, poll_interval) ==
    /\ ctl[c].pc = "idle"
    /\ UNCHANGED <<logged_in, keepalive, updates, stop_updates, ka, up>>
    /\ LET f == Call("get_updates", <<TRUE, poll_interval>>)
       IN ctl' = [ctl EXCEPT ![c] =
                     CASE ~logged_in -> Returned(f, "NotAuthenticated")
                       [] logged_in /\ poll_interval <= 0 ->
                              Returned(f, "InvalidArgument_poll_interval")
                       [] logged_in /\ poll_interval > 0 /\ updates # None ->
                              Returned(f, "PollerAlreadyRunning")
                       [] OTHER -> [f EXCEPT !.pc = "start"]]

\* lines 315-319: self._updates = threading.Thread(...); self._updates.start()
RaceStart(c) ==
    /\ ctl[c].pc = "start"
    /\ FreeUpdates # {}
    /\ UNCHANGED <<logged_in, keepalive, stop_updates, ka>>
    /\ updates' = NewUpdates
    /\ up' = [up EXCEPT ![NewUpdates] = [pc |-> "wait", retry_count |-> 0]]
    /\ ctl' = [ctl EXCEPT ![c] = Returned(
                  [@ EXCEPT !.started =
                      <<[kind |-> "_updates", id |-> NewUpdates,
                         args |-> <<TRUE, FALSE, ctl[c].arg[2]>>]>>],
                  "ok")]

\* lines 322-325 and 329-331: the guards of cancel_updates().
RaceCancelUpdates(c) ==
    /\ ctl[c].pc = "idle"
    /\ UNCHANGED <<logged_in, keepalive, updates, stop_updates, ka, up>>
    /\ LET f == Call("cancel_updates", <<>>)
       IN ctl' = [ctl EXCEPT ![c] =
                     CASE ~logged_in -> Returned(f, "NotAuthenticated")
                       [] logged_in /\ updates = None ->
                              Returned(f, "PollerNotRunning")
                       [] OTHER -> [f EXCEPT !.pc = "set"]]

\* line 326: self._stop_updates.set()
RaceSet(c) ==
    /\ ctl[c].pc = "set"
    /\ UNCHANGED <<logged_in, keepalive, updates, ka>>
    /\ stop_updates' = TRUE
    /\ up' = Notified(up)
    /\ ctl' = [ctl EXCEPT ![c] = [@ EXCEPT !.pc = "drop",
                                            !.sig = {"stop_updates"}]]

\* line 327: self._updates = None
RaceDrop(c) ==
    /\ ctl[c].pc = "drop"
    /\ UNCHANGED <<logged_in, keepalive, stop_updates, ka>>
    /\ updates' = None
    /\ up' = IF updates = None THEN up ELSE UpdatesDropped(up, updates)
    /\ ctl' = [ctl EXCEPT ![c] = Returned(@, "ok")]

\* The caller goes on after its call has returned.
RaceResume(c) ==
    /\ ctl[c].pc = "ret"
    /\ ctl' = [ctl EXCEPT ![c] = Idle]
    /\ UNCHANGED <<logged_in, keepalive, updates, stop_updates, ka, up>>

RaceNext ==
    \E c \in Callers :
        \/ \E interval \in KeepAliveIntervals : RaceLogin(c, interval)
        \/ \E page \in {"other", "redirect"} : RaceLoggedIn(c, page)
        \/ \E poll_interval \in PollIntervals : RaceGetUpdates(c, poll_interval)
        \/ RaceStart(c)
        \/ RaceCancelUpdates(c)
        \/ RaceSet(c)
        \/ RaceDrop(c)
        \/ RaceResume(c)

RaceSpec == RaceInit /\ [][RaceNext]_vars

\* =============================================================== claims
KeepAliveAlive(i) == ka[i].pc \in {"wait", "req"}
UpdatesAlive(i) == up[i].pc \in {"wait", "blocked", "fetch", "exc", "fin"}

\* The methods behind the decorator _logged_only.
LoggedOnly ==
    {"logout", "get_info", "set_area_action", "get_updates", "cancel_updates"}

\* The call made nothing happen: no request, no thread, no Event set, and the
\* session is as it was.
NoEffect ==
    /\ ctl.reqs = <<>>
    /\ ctl.started = <<>>
    /\ ctl.sig = {}
    /\ ctl.post = ctl.pre

\* C1: login on an authenticated session fails with AlreadyAuthenticated,
\* issues no HTTP request and leaves authenticated, the keepalive handle, the
\* poller handle and the cancellation flag unchanged.
C1_LoginAlreadyAuthenticated ==
    (ctl.op = "login" /\ ctl.pre.logged_in) =>
        /\ ctl.pc = "ret"
        /\ ctl.err = "AlreadyAuthenticated"
        /\ NoEffect
        /\ Sess = ctl.pre

C1_Witness ==
    /\ ctl.pc = "ret"
    /\ ctl.op = "login"
    /\ ctl.err = "AlreadyAuthenticated"
    /\ ctl.pre.keepalive # None
    /\ ctl.pre.updates # None
    /\ ctl.pre.stop_updates

\* C2: on a session that is not authenticated, logout, get_info,
\* set_area_action, get_updates and cancel_updates each fail with
\* NotAuthenticated before anything else: no request, no thread started or
\* signalled, no argument validated first, session unchanged.
C2_NotAuthenticated ==
    (ctl.op \in LoggedOnly /\ ~ctl.pre.logged_in) =>
        /\ ctl.pc = "ret"
        /\ ctl.err = "NotAuthenticated"
        /\ NoEffect
        /\ Sess = ctl.pre

\* get_updates without on_update and with a bad interval, while a poller of
\* an earlier session is still alive: NotAuthenticated all the same.
C2_Witness ==
    /\ ctl.pc = "ret"
    /\ ctl.op = "get_updates"
    /\ ~ctl.pre.logged_in
    /\ ctl.arg = <<FALSE, 0>>
    /\ ctl.err = "NotAuthenticated"
    /\ \E i \in UpdatesIds : UpdatesAlive(i)

\* C3: a login that fails on the missing 'loginaff' marker (ProtocolError)
\* or on the redirect marker (AuthenticationFailed) leaves authenticated
\* false and creates and starts no KeepAlive; in the first case exactly one
\* request, the login page, was issued, in the second the login page was
\* fetched before the credentials were submitted.
C3_LoginFailure ==
    (ctl.op = "login" /\ ctl.pc = "ret" /\ ~ctl.pre.logged_in) =>
        /\ ctl.resps = <<"other">> =>
              /\ ctl.err = "ProtocolError"
              /\ ctl.reqs = <<Req("login_page.html", <<>>)>>
        /\ ctl.resps = <<"loginaff", "redirect">> =>
              /\ ctl.err = "AuthenticationFailed"
              /\ ctl.reqs = <<Req("login_page.html", <<>>),
                              Req("default.html", <<"p", "u">>)>>
        /\ ctl.err \in {"ProtocolError", "AuthenticationFailed"} =>
              /\ ~logged_in
              /\ keepalive = None
              /\ ctl.started = <<>>
              /\ ctl.post.logged_in = FALSE
              /\ ctl.post.keepalive = None
              /\ \A i \in KeepAliveIds : ~KeepAliveAlive(i)

C3_Witness ==
    /\ ctl.op = "login"
    /\ ctl.pc = "ret"
    /\ ctl.err = "AuthenticationFailed"
    /\ ctl.arg = <<10>>

\* C4 as claimed: every call that returns an error leaves all session state
\* (authenticated, keepalive task and handle, poller handle, cancellation
\* flag) as it was before the call.
C4_ErrorLeavesStateUnchanged ==
    (ctl.pc = "ret" /\ ctl.err # "ok") =>
        /\ ctl.post.logged_in = ctl.pre.logged_in
        /\ ctl.post.keepalive = ctl.pre.keepalive
        /\ ctl.post.cancelled = ctl.pre.cancelled
        /\ ctl.post.updates = ctl.pre.updates
        /\ ctl.sig = {}
        /\ ctl.started = <<>>

\* C4, amended: a call that returns an error leaves authenticated as it was;
\* it leaves the keepalive task and handle and the poller handle as they
\* were, and sets no Event, unless it is a logout that failed after its
\* guard: that one has cancelled, joined and detached the keepalive and
\* signalled and detached the poller.
C4_ErrorLeavesStateUnchangedButLogout ==
    (ctl.pc = "ret" /\ ctl.err # "ok") =>
        /\ ctl.post.logged_in = ctl.pre.logged_in
        /\ ctl.started = <<>>
        /\ (ctl.op # "logout" \/ ctl.err = "NotAuthenticated") =>
              /\ ctl.post.keepalive = ctl.pre.keepalive
              /\ ctl.post.cancelled = ctl.pre.cancelled
              /\ ctl.post.updates = ctl.pre.updates
              /\ ctl.sig = {}
        /\ (ctl.op = "logout" /\ ctl.err # "NotAuthenticated") =>
              /\ ctl.post.keepalive = None
              /\ ctl.post.updates = None
              /\ ctl.pre.keepalive # None <=> "stopped" \in ctl.sig
              /\ ctl.pre.updates # None <=> "stop_updates" \in ctl.sig

C4_Witness ==
    /\ ctl.pc = "ret"
    /\ ctl.op = "get_updates"
    /\ ctl.err = "PollerAlreadyRunning"
    /\ ctl.pre.keepalive # None

\* C5: a login that succeeds (marker found, no redirect) sets authenticated
\* and, exactly when keep_alive_interval is non-zero, creates and starts one
\* KeepAlive with that interval; with interval zero the keepalive handle
\* stays empty.
C5_LoginSuccess ==
    (ctl.op = "login" /\ ctl.pc = "ret" /\ ctl.resps = <<"loginaff", "other">>) =>
        /\ ctl.err = "ok"
        /\ logged_in
        /\ ctl.arg[1] # 0 =>
              /\ keepalive # None
              /\ ctl.started = <<[kind |-> "KeepAlive", id |-> keepalive,
                                  args |-> ctl.arg]>>
              /\ ka[keepalive] = [pc |-> "wait", stopped |-> FALSE]
              /\ {i \in KeepAliveIds : KeepAliveAlive(i)} = {keepalive}
        /\ ctl.arg[1] = 0 =>
              /\ keepalive = None
              /\ ctl.started = <<>>
              /\ {i \in KeepAliveIds : KeepAliveAlive(i)} = {}

C5_Witness ==
    /\ ctl.op = "login"
    /\ ctl.pc = "ret"
    /\ ctl.err = "ok"
    /\ ctl.arg = <<10>>
    /\ logged_in
    /\ keepalive # None

\* GET logout.html has been issued by the logout in progress or just returned.
LogoutRequested == ctl.op = "logout" /\ ctl.reqs # <<>>

\* C6: in a logout from an authenticated session the KeepAlive, if any, has
\* been cancelled and has ended, and the poller's Event, if a poller is
\* attached, has been set, before GET logout.html is issued and before
\* authenticated is cleared; no KeepAlive is alive once the request is out,
\* so no heartbeat is issued after it.
C6_LogoutOrder ==
    /\ LogoutRequested =>
          /\ ctl.pre.keepalive # None =>
                /\ "stopped" \in ctl.sig
                /\ ~KeepAliveAlive(ctl.pre.keepalive)
          /\ ctl.pre.updates # None => "stop_updates" \in ctl.sig
    /\ (ctl.op = "logout" /\ ctl.pre.logged_in /\ ~logged_in) =>
          /\ LogoutRequested
          /\ ctl.resps = <<"200">>
    /\ \A i \in KeepAliveIds :
          KeepAliveAlive(i) => (logged_in /\ keepalive = i /\ ~LogoutRequested)

C6_Witness ==
    /\ ctl.pc = "logout_http"
    /\ ctl.pre.keepalive # None
    /\ ctl.pre.updates # None
    /\ logged_in

\* C7: when GET logout.html returns success, logout ends with authenticated
\* false, the keepalive handle empty and the poller handle empty, whatever
\* the keepalive and the poller were before.
C7_LogoutSuccess ==
    (ctl.op = "logout" /\ ctl.pc = "ret" /\ ctl.resps = <<"200">>) =>
        /\ ctl.err = "ok"
        /\ ~logged_in
        /\ keepalive = None
        /\ updates = None

C7_Witness ==
    /\ ctl.op = "logout"
    /\ ctl.pc = "ret"
    /\ ctl.err = "ok"
    /\ ctl.pre.keepalive # None
    /\ ctl.pre.updates # None
    /\ ~logged_in

\* C8: when GET logout.html returns another status, logout fails with
\* HttpFailure and authenticated stays true, while the keepalive has been
\* cancelled, joined and detached and an attached poller signalled and
\* detached.
C8_LogoutHttpFailure ==
    (ctl.op = "logout" /\ ctl.pc = "ret" /\ ctl.resps = <<"404">>) =>
        /\ ctl.err = "HttpFailure"
        /\ ctl.reqs = <<Req("logout.html", <<>>)>>
        /\ logged_in
        /\ keepalive = None
        /\ updates = None
        /\ ctl.pre.keepalive # None =>
              /\ "stopped" \in ctl.sig
              /\ ~KeepAliveAlive(ctl.pre.keepalive)
        /\ ctl.pre.updates # None => "stop_updates" \in ctl.sig

C8_Witness ==
    /\ ctl.op = "logout"
    /\ ctl.pc = "ret"
    /\ ctl.err = "HttpFailure"
    /\ ctl.pre.keepalive # None
    /\ ctl.pre.updates # None
    /\ logged_in

\* C9 as claimed: at most one KeepAlive loop and at most one poller loop is
\* alive (started and not yet ended) at any time.
C9_AtMostOneLoop ==
    /\ Cardinality({i \in KeepAliveIds : KeepAliveAlive(i)}) <= 1
    /\ Cardinality({i \in UpdatesIds : UpdatesAlive(i)}) <= 1

\* C10: on an authenticated session get_updates is rejected, starting no
\* thread and leaving the poller handle, without on_update, with an interval
\* <= 0, or with a poller attached; cancel_updates is rejected with
\* PollerNotRunning when none is attached.  An accepted get_updates attaches
\* and starts exactly one poller; an accepted cancel_updates sets the Event
\* and empties the handle.
C10_Polling ==
    /\ (ctl.op = "get_updates" /\ ctl.pc = "ret" /\ ctl.pre.logged_in) =>
          LET on_update == ctl.arg[1]
              poll_interval == ctl.arg[2]
              rejected == ~on_update \/ poll_interval <= 0 \/ ctl.pre.updates # None
          IN /\ ~on_update => ctl.err = "InvalidArgument_on_update"
             /\ (on_update /\ poll_interval <= 0) =>
                   ctl.err = "InvalidArgument_poll_interval"
             /\ (on_update /\ poll_interval > 0 /\ ctl.pre.updates # None) =>
                   ctl.err = "PollerAlreadyRunning"
             /\ rejected => (NoEffect /\ Sess = ctl.pre)
             /\ ~rejected =>
                   /\ ctl.err = "ok"
                   /\ updates # None
                   /\ Len(ctl.started) = 1
                   /\ ctl.started[1].kind = "_updates"
                   /\ ctl.started[1].id = updates
                   /\ up[updates] = [pc |-> "wait", retry_count |-> 0]
                   /\ ctl.post = [ctl.pre EXCEPT !.updates = updates]
    /\ (ctl.op = "cancel_updates" /\ ctl.pc = "ret" /\ ctl.pre.logged_in) =>
          /\ ctl.pre.updates = None =>
                /\ ctl.err = "PollerNotRunning"
                /\ NoEffect
                /\ Sess = ctl.pre
          /\ ctl.pre.updates # None =>
                /\ ctl.err = "ok"
                /\ ctl.sig = {"stop_updates"}
                /\ stop_updates
                /\ updates = None
                /\ \A i \in UpdatesIds : up[i].pc # "blocked"

C10_Witness ==
    /\ ctl.op = "get_updates"
    /\ ctl.pc = "ret"
    /\ ctl.err = "ok"
    /\ updates # None
    /\ up[updates].pc = "wait"


\* ------------------------------------------------------------------ C11
\* The thread Body and DeltaSpec follow, while its object exists.
Followed == up[1].pc # "none"

\* The loop of line 264 has not been left.
LoopAlive(t) == t.pc \in {"wait", "blocked", "fetch"}

Ticked(t) == t.last = "ok" /\ t.pc \in {"wait", "blocked", "fetch", "exc"}

\* C13: a successful tick calls on_update once, with the delta, when the
\* delta has a category, and not at all when it has none; a snapshot equal
\* to the previous one gives no call, and every entry passed differs from
\* the previous snapshot's entry of the same index.
C13_OnUpdate ==
    (Followed /\ Ticked(up[1])) =>
        LET t == up[1]
        IN /\ Len(t.calls) <= 1
           /\ t.calls # <<>> <=> DOMAIN t.tick.updated # {}
           /\ t.tick.cur = t.tick.prev => t.calls = <<>>
           /\ \A k \in 1..Len(t.calls) :
                 /\ t.calls[k].cb = "on_update"
                 /\ t.calls[k].arg = t.tick.updated
                 /\ \A d1 \in DOMAIN t.calls[k].arg \cap DOMAIN t.tick.prev :
                       \A n \in 1..Len(t.calls[k].arg[d1]) :
                          LET e == t.calls[k].arg[d1][n]
                          IN e # t.tick.prev[d1][e[1]]

C13_Witness ==
    /\ Followed
    /\ Ticked(up[1])
    /\ up[1].tick.prev # NoState
    /\ Len(up[1].calls) = 1
    /\ up[1].calls[1].arg # up[1].tick.cur
    /\ DOMAIN up[1].calls[1].arg = {"areas_status"}

\* ------------------------------------------------------------------ C14
\* The entries of cur that differ from the entry of prev at their index.
Differing(cur, prev) ==
    LET Differs(e) == e # prev[e[1]]
    IN SelectSeq(cur, Differs)

\* C14: a category the previous snapshot lacks is in the delta whole; for a
\* category of the same length in both snapshots the delta has the current
\* entries that differ from the previous ones at their index, in ascending
\* order, and no key for the category when none differs.
C14_Delta ==
    (Followed /\ Ticked(up[1])) =>
        LET prev == up[1].tick.prev
            cur == up[1].tick.cur
            updated == up[1].tick.updated
        IN \A d1 \in DOMAIN cur :
              /\ d1 \notin DOMAIN prev =>
                    /\ d1 \in DOMAIN updated
                    /\ updated[d1] = cur[d1]
              /\ (d1 \in DOMAIN prev /\ Len(cur[d1]) = Len(prev[d1])) =>
                    IF Differing(cur[d1], prev[d1]) = <<>>
                    THEN d1 \notin DOMAIN updated
                    ELSE /\ d1 \in DOMAIN updated
                         /\ updated[d1] = Differing(cur[d1], prev[d1])

C14_Witness ==
    /\ Followed
    /\ Ticked(up[1])
    /\ up[1].tick.prev # NoState
    /\ DOMAIN up[1].tick.updated = {"zones_status"}
    /\ Len(up[1].tick.cur["zones_status"]) = 2
    /\ up[1].tick.updated["zones_status"] = <<<<2, "Open">>>>


\* ------------------------------------------------------------------ C15
\* The pollers of a session that is logged in, with the scheduling the
\* threads get.  The caller starts and cancels pollers and may log out; a
\* thread that can take its next step takes it (the interval passes, the
\* request is answered or fails), and a call in progress goes on to its
\* return.  Nothing makes the caller call.
PollInit ==
    /\ logged_in = TRUE
    /\ keepalive = None
    /\ updates = None
    /\ stop_updates = FALSE
    /\ ka = [i \in KeepAliveIds |-> NoKeepAlive]
    /\ up = [i \in UpdatesIds |-> NoUpdates]
    /\ ctl = Idle

\* The next step of the thread i, wherever it is.
UpdatesStep(i) ==
    \/ UpdatesWait(i)
    \/ UpdatesTick(i)
    \/ \E o \in TickOutcomes : UpdatesResponse(i, o)
    \/ UpdatesError(i)
    \/ UpdatesFinally(i)

\* The next step of a call in progress, or the caller going on after it.
Proceeds ==
    \/ LogoutUpdates
    \/ \E status \in Statuses : LogoutResponse(status)
    \/ Resume

PollNext ==
    \/ \E on_update \in BOOLEAN, on_error \in BOOLEAN, interval \in PollIntervals :
          GetUpdates(on_update, on_error, interval)
    \/ CancelUpdates
    \/ LogoutCall
    \/ Proceeds
    \/ \E i \in UpdatesIds : UpdatesStep(i)

\* The threads' conditions are strong: the instant a call returns, at which
\* no thread steps, is no place a thread can be held at.
FairSpec ==
    /\ PollInit
    /\ [][PollNext]_vars
    /\ WF_vars(Proceeds)
    /\ \A i \in UpdatesIds : SF_vars(UpdatesStep(i))

\* cancel_updates() or logout() has returned having set the Event for the
\* thread i it found attached.
SignalSetFor(i) ==
    /\ ctl.pc = "ret"
    /\ ctl.op \in {"cancel_updates", "logout"}
    /\ "stop_updates" \in ctl.sig
    /\ ctl.pre.updates = i

\* get_updates() has returned having started a thread.
UpdatesStarted ==
    ctl.pc = "ret" /\ ctl.op = "get_updates" /\ ctl.err = "ok"

\* C15: once cancel_updates() or logout() has set the Event for the attached
\* poller, the loop of that thread ends, unless get_updates() starts
\* another one.
C15_EventuallyExits ==
    \A i \in UpdatesIds :
        SignalSetFor(i) ~> (~UpdatesAlive(i) \/ UpdatesStarted)


\* ------------------------------------------------------------------ C16
\* C16: a poller thread ends by one step only, the `finally` that clears the
\* Event's flag: it comes after the loop has ended or the handler has run
\* (on_error included), the handler itself leaves the flag alone, and no
\* other step of a thread changes the flag.
C16_FinallyClears ==
    [][\A i \in UpdatesIds :
          /\ (UpdatesAlive(i) /\ ~UpdatesAlive(i)') =>
                (up[i].pc = "fin" /\ stop_updates' = FALSE)
          /\ (up[i].pc = "exc" /\ up'[i] # up[i]) =>
                (up'[i].pc = "fin" /\ stop_updates' = stop_updates)
          /\ (ctl' = ctl /\ stop_updates' # stop_updates) =>
                \E j \in UpdatesIds : up[j].pc = "fin" /\ ~UpdatesAlive(j)'
      ]_vars

\* logout() has set the flag for the poller it found attached, and while
\* logout.html is awaited that thread has ended and the flag is clear.
C16_Witness ==
    /\ ctl.pc = "logout_http"
    /\ "stop_updates" \in ctl.sig
    /\ ctl.pre.updates # None
    /\ up[ctl.pre.updates].pc = "none"
    /\ \A i \in UpdatesIds : ~UpdatesAlive(i)
    /\ stop_updates = FALSE


\* ------------------------------------------------------------------ C17
\* C17: a poller that get_updates() has started and that is still attached
\* (no cancel_updates() and no logout() since) does not find the Event set
\* at its first wait(), which would end its loop before it has polled once.
C17_NotEndedByStaleSignal ==
    [][\A i \in UpdatesIds :
          ~ /\ updates = i
            /\ updates' = i
            /\ up[i].pc = "wait"
            /\ up[i].retry_count = 0
            /\ up'[i].pc = "fin"
      ]_vars


\* ------------------------------------------------------------------ C18
\* The thread i has ended, or is ending, for exhausted retries.
ExhaustedEnd(i, pc) ==
    up[i].pc = pc /\ up[i].retry_count = max_retry_count + 1

\* C18 as stated: once a poller has ended for exhausted retries the session
\* is logged in and _updates is None.
C18_HandleEmptyAfterExhaustion ==
    \A i \in UpdatesIds :
        ExhaustedEnd(i, "done") => (logged_in /\ updates = None)

\* C18, amended: when a poller ends for exhausted retries the session stays
\* logged in and _updates goes on referring to the ended thread; from then
\* on cancel_updates() is accepted and empties the handle, and
\* get_updates() with valid arguments is rejected with "Already getting
\* updates.".
C18_HandleKeptAfterExhaustion ==
    [][\A i \in UpdatesIds :
          /\ (ExhaustedEnd(i, "fin") /\ updates = i /\ up'[i].pc # "fin") =>
                (updates' = i /\ up'[i].pc = "done" /\ logged_in')
          /\ (ExhaustedEnd(i, "done") /\ Ready /\ ctl'.pc = "ret") =>
                /\ updates = i /\ logged_in
                /\ ctl'.op = "cancel_updates" =>
                      (ctl'.err = "ok" /\ updates' = None /\ stop_updates')
                /\ ctl'.op = "get_updates" =>
                      /\ updates' = i
                      /\ up' = up
                      /\ (ctl'.arg[1] /\ ctl'.arg[2] > 0) =>
                            ctl'.err = "PollerAlreadyRunning"
      ]_vars

C18_Witness ==
    /\ ctl.pc = "ret"
    /\ ctl.op = "get_updates"
    /\ ctl.err = "PollerAlreadyRunning"
    /\ logged_in
    /\ updates # None
    /\ ExhaustedEnd(updates, "done")


\* ------------------------------------------------------------------ C19
\* C19: a KeepAlive thread that login() has started and that nobody has
\* cancelled is running: no answer to a keep_alive.html request, and no
\* failure of one, has ended run().
C19_RunsUntilCancelled ==
    (keepalive # None /\ ~ka[keepalive].stopped) => KeepAliveAlive(keepalive)

\* ------------------------------------------------------------------ C20
\* The number a str of the arguments used stands for.
Numeral(text) ==
    CASE text = <<"0">> -> 0
      [] text = <<"1">> -> 1
      [] text = <<"0", "2">> -> 2
      [] text = <<"1", "2">> -> 12

\* The number a sequence of decimal digits stands for.
RECURSIVE Decimal(_)
Decimal(ds) ==
    IF ds = <<>> THEN 0
    ELSE 10 * Decimal(SubSeq(ds, 1, Len(ds) - 1)) + ds[Len(ds)]

\* set_area_action(area, action) has returned, called on a logged-in session
\* with area >= 1, an int or a str of digits, and one of the four actions.
ActionDispatched ==
    /\ ctl.pc = "ret"
    /\ ctl.op = "set_area_action"
    /\ ctl.pre.logged_in
    /\ ctl.arg[1].str => ctl.arg[1].text # <<"x">>
    /\ (IF ctl.arg[1].str THEN Numeral(ctl.arg[1].text) ELSE ctl.arg[1].int) >= 1
    /\ ctl.arg[2] \in {"Disarm", "Arm", "Arm_sleep", "Arm_stay"}

\* What C20 has in common as stated and as amended: one request to
\* statuslive.html whose area stands for area - 1 and whose value is the
\* action's letter; HttpFailure exactly for an answer that is not 200; the
\* session as before.
ActionRequest ==
    LET n == IF ctl.arg[1].str THEN Numeral(ctl.arg[1].text) ELSE ctl.arg[1].int
        value == CASE ctl.arg[2] = "Disarm" -> "d"
                   [] ctl.arg[2] = "Arm" -> "r"
                   [] ctl.arg[2] = "Arm_sleep" -> "p"
                   [] ctl.arg[2] = "Arm_stay" -> "s"
    IN /\ Len(ctl.reqs) = 1
       /\ ctl.reqs[1].ep = "statuslive.html"
       /\ Decimal(ctl.reqs[1].params[1]) = n - 1
       /\ ctl.reqs[1].params[2] = value
       /\ ctl.resps[1] = "200" <=> ctl.err = "ok"
       /\ ctl.resps[1] # "raise" =>
             (ctl.err = "HttpFailure" <=> ctl.resps[1] # "200")
       /\ ctl.post = ctl.pre
       /\ ctl.started = <<>>
       /\ ctl.sig = {}

AreaGiven ==
    IF ctl.arg[1].str THEN Numeral(ctl.arg[1].text) ELSE ctl.arg[1].int

\* set_area_action(area, action) has returned, called on a logged-in session
\* with an int or a str of digits.
ActionCalled ==
    /\ ctl.pc = "ret"
    /\ ctl.op = "set_area_action"
    /\ ctl.pre.logged_in
    /\ ctl.arg[1].str => ctl.arg[1].text # <<"x">>

\* C21: with area <= 0 the call fails with 'Invalid area provided.' whatever
\* the action; with area >= 1 and an action that is none of the four it
\* fails with the error that lists Disarm, Arm, Arm_sleep, Arm_stay; either
\* way no request is issued and the session is as before.
C21_InvalidArgument ==
    ActionCalled =>
        /\ AreaGiven <= 0 =>
              /\ ctl.err = "InvalidArgument_area"
              /\ ctl.reqs = <<>>
              /\ ctl.post = ctl.pre
        /\ (/\ AreaGiven >= 1
            /\ ctl.arg[2] \notin {"Disarm", "Arm", "Arm_sleep", "Arm_stay"}) =>
              /\ ctl.err = "InvalidArgument_action"
              /\ ctl.detail = <<"Disarm", "Arm", "Arm_sleep", "Arm_stay">>
              /\ ctl.reqs = <<>>
              /\ ctl.post = ctl.pre
        /\ ctl.reqs = <<>> => (ctl.started = <<>> /\ ctl.sig = {})

C21_Witness ==
    /\ ActionCalled
    /\ ctl.arg = <<StrArea(<<"0">>), "Bogus">>
    /\ ctl.err = "InvalidArgument_area"
    /\ ctl.pre.updates # None

\* The bytes a returned text spells: pair k of its hexadecimal digits.
HexValue(ch) == (CHOOSE n \in 1..Len(Chars) : Chars[n] = ch) - 1
ByteAt(text, k) == 16 * HexValue(text[2 * k - 1]) + HexValue(text[2 * k])

CipherCalled == ctl.pc = "ret" /\ ctl.op = "_paradox_rc4"

\* C22: the cipher is a function of its two arguments and touches no session
\* state; it returns two uppercase hexadecimal digits per input symbol; pair
\* k is the k-th input byte XOR a keystream byte that depends on the key and
\* the position alone (the same one whatever the data); and for data '1234'
\* under the key of the repository's test the text is '80815A09'.
C22_Cipher ==
    CipherCalled =>
        LET data == ctl.arg[1]
            key == ctl.arg[2]
            text == ctl.ret.text
            zeros == [k \in 1..Len(data) |-> "0"]
        IN  /\ ctl.err = "ok" /\ ctl.post = ctl.pre /\ ctl.reqs = <<>>
            /\ ctl.started = <<>> /\ ctl.sig = {}
            /\ Len(text) = 2 * Len(data)
            /\ \A n \in 1..Len(text) : \E c \in 1..Len(Chars) : text[n] = Chars[c]
            /\ \A k \in 1..Len(data) :
                   Xor(ByteAt(text, k), Ord(data[k]))
                       = Xor(ByteAt(paradox_rc4(zeros, key).text, k), Ord("0"))
            /\ (data = TestCode /\ key = TestKey) =>
                   text = <<"8", "0", "8", "1", "5", "A", "0", "9">>

C22_Witness ==
    /\ CipherCalled
    /\ ctl.arg = <<TestCode, TestKey>>
    /\ ctl.ret.text = <<"8", "0", "8", "1", "5", "A", "0", "9">>


\* C26 as stated: the key-scheduling loop takes i from 255 down to 0, one
\* swap for each of the 256 indices, whatever the length of the key.
C26_AllIndices ==
    CipherCalled => ctl.ret.steps = [k \in 1..256 |-> 256 - k]

\* C26: the key-scheduling loop takes i from len(key) - 1 down to 0, one
\* swap for each character of the key and none for the other indices of S;
\* the stream phase that follows reads S at i = 0, 1, ... wrapping modulo
\* 256.
C26_KeyIndices ==
    CipherCalled =>
        LET data == ctl.arg[1]
            key == ctl.arg[2]
        IN  /\ ctl.ret.steps = [k \in 1..Len(key) |-> Len(key) - k]
            /\ ctl.ret.used = [k \in 1..Len(data) |-> (k - 1) % 256]

C26_Witness ==
    /\ CipherCalled
    /\ ctl.arg = <<LongCode, TestKey>>
    /\ Len(ctl.ret.steps) = 48
    /\ ctl.ret.steps[1] = 47
    /\ ctl.ret.used[257] = 0


InfoCalled == ctl.pc = "ret" /\ ctl.op = "get_info" /\ ctl.pre.logged_in

\* C23: on a valid status page get_info turns the k-th integer of
\* tbl_statuszone into the zone entry (k, name) by the zone table 0..9 and
\* the k-th integer of tbl_useraccess into the area entry (k, name) by the
\* area table 0..10, in the order and to the length of the arrays; zones
\* 0,0,1 with areas 9,8,0,0 give (1,Closed),(2,Closed),(3,Open) and
\* (1,Not_ready),(2,Ready),(3,Unset),(4,Unset); and the call leaves the
\* session as it found it.
C23_Decode ==
    InfoCalled =>
        LET page == ctl.resps[1]
            zones == page["zones_status"]
            areas == page["areas_status"]
        IN  /\ ctl.post = ctl.pre /\ ctl.started = <<>> /\ ctl.sig = {}
            /\ ctl.err = "ok" <=>
                   /\ \A k \in 1..Len(zones) : zones[k] \in 0..9
                   /\ \A k \in 1..Len(areas) : areas[k] \in 0..10
            /\ ctl.err = "ok" =>
                   /\ Len(ctl.ret["zones_status"]) = Len(zones)
                   /\ Len(ctl.ret["areas_status"]) = Len(areas)
                   /\ \A k \in 1..Len(zones) :
                          ctl.ret["zones_status"][k]
                              = <<k, zones_status_map[zones[k]]>>
                   /\ \A k \in 1..Len(areas) :
                          ctl.ret["areas_status"][k]
                              = <<k, areas_status_map[areas[k]]>>
                   /\ (zones = <<0, 0, 1>> /\ areas = <<9, 8, 0, 0>>) =>
                          /\ ctl.ret["zones_status"]
                                 = <<<<1, "Closed">>, <<2, "Closed">>,
                                     <<3, "Open">>>>
                          /\ ctl.ret["areas_status"]
                                 = <<<<1, "Not_ready">>, <<2, "Ready">>,
                                     <<3, "Unset">>, <<4, "Unset">>>>

C23_Witness ==
    /\ InfoCalled
    /\ ctl.err = "ok"
    /\ ctl.resps[1]["zones_status"] = <<0, 0, 1>>
    /\ ctl.resps[1]["areas_status"] = <<9, 8, 0, 0>>
    /\ ctl.ret["areas_status"][2] = <<2, "Ready">>
    /\ ctl.pre.updates # None


\* A step in which the followed poller's fetch fails.
FetchFails == up[1].pc = "fetch" /\ up'[1].fails = up[1].fails + 1

\* C24: whatever makes a fetch of the poller fail (timeout, page without the
\* form, connection failure, array not found, unknown code), the failure is
\* counted in retry_count, and unless it is the one that passes the bound of
\* 5 the loop goes on and on_error is not called for it.
C24_EveryFailureRetried ==
    [][FetchFails =>
          /\ LoopAlive(up'[1]) => up'[1].retry_count = up[1].retry_count + 1
          /\ up'[1].fails <= max_retry_count => up'[1].pc # "exc"]_vars


\* What on_error has been told once the handler has run for error err.
Reported(t) == IF t.on_error THEN <<t.err>> ELSE <<>>

\* C25: a failure that is not a retried fetch failure (on_update raising, an
\* exception of get_info that is not retried, the retry bound passed) ends
\* the loop: from the handler the thread goes nowhere but to `finally`,
\* having called on_error exactly once with that failure when one was given
\* and not at all otherwise, whether on_error returned or raised; and the
\* step after it clears the cancellation flag and ends the thread.
C25_ReportedOnceThenCleared ==
    [][/\ up[1].pc = "exc" => up[1].err # "none" /\ up[1].errors = <<>>
       /\ (up[1].pc = "exc" /\ up'[1] # up[1]) =>
              /\ up'[1].pc = "fin"
              /\ up'[1].errors = Reported(up[1])
              /\ Len(up'[1].calls) = Len(Reported(up[1]))
       /\ (up[1].pc = "fin" /\ up[1].err # "none") =>
              up[1].errors = Reported(up[1])
       /\ (up[1].pc = "fin" /\ up'[1] # up[1]) =>
              /\ up'[1].pc \in {"done", "none"}
              /\ stop_updates' = FALSE]_vars

C25_Witness ==
    /\ up[1].pc = "done"
    /\ up[1].err = "CallbackError"
    /\ up[1].errors = <<"CallbackError">>
    /\ up[1].calls = <<CallOnError("CallbackError", TRUE)>>
    /\ stop_updates = FALSE


C28_Serialized ==
    /\ \A i \in UpdatesIds :
          (up[i].pc = "wait" /\ updates # i) => stop_updates
    /\ \A i \in KeepAliveIds : ka[i].pc = "wait" => keepalive = i
    /\ ~(\A c \in Callers : ctl[c].pc \in {"set", "drop"})


\* A step in which the followed poller's fetch succeeds.
FetchSucceeds ==
    /\ up[1].pc = "fetch"
    /\ up'[1].pc \notin {"fetch", "none"}
    /\ up'[1].last = "ok"

\* C29: a failed tick leaves prev_state as it was, so that while the loop
\* runs prev_state is the last snapshot fetched, however many fetches have
\* failed since; the tick that succeeds after them computes its delta
\* against that snapshot and calls on_update with it when it is not empty;
\* and prev_state changes in no step but a successful tick's, which makes
\* the snapshot just fetched the previous one, callback or not.
C29_PrevKeptOverFailures ==
    [][/\ LoopAlive(up[1]) => up[1].prev_state = up[1].tick.cur
       /\ FetchFails => up'[1].prev_state = up[1].prev_state
       /\ FetchSucceeds =>
              /\ up'[1].tick.prev = up[1].tick.cur
              /\ up'[1].tick.updated
                     = UpdatedState(up[1].tick.cur, up'[1].tick.cur)
              /\ Len(up'[1].calls)
                     = IF DOMAIN up'[1].tick.updated # {} THEN 1 ELSE 0
              /\ \A k \in 1..Len(up'[1].calls) :
                     up'[1].calls[k].arg = up'[1].tick.updated
              /\ up'[1].pc # "exc" => up'[1].prev_state = up'[1].tick.cur
       /\ (up[1].pc # "none" /\ up'[1].pc # "none"
               /\ up'[1].prev_state # up[1].prev_state) => FetchSucceeds]_vars

C29_Witness ==
    /\ up[1].pc = "fetch"
    /\ up[1].fails = max_retry_count
    /\ up[1].prev_state # NoState
    /\ up[1].prev_state = up[1].tick.cur


\* C30: for a category both snapshots have, with lists of different length,
\* the positions compared are those both lists have: the delta of the
\* category is the current entries among them that differ from the previous
\* entry at their position, a current entry past the end of the previous
\* list is not in it, and whatever is in a delta is the current snapshot's
\* entry at its own index.
C30_ShorterLength ==
    (Followed /\ Ticked(up[1])) =>
        LET prev == up[1].tick.prev
            cur == up[1].tick.cur
            updated == up[1].tick.updated
        IN /\ \A d1 \in DOMAIN cur \cap DOMAIN prev :
                 LET both == {k \in 1..Len(cur[d1]) : k <= Len(prev[d1])}
                     changed == {k \in both : cur[d1][k] # prev[d1][k]}
                 IN IF changed = {}
                    THEN d1 \notin DOMAIN updated
                    ELSE /\ d1 \in DOMAIN updated
                         /\ {e[1] : e \in {updated[d1][n] :
                                 n \in 1..Len(updated[d1])}} = changed
                         /\ Len(updated[d1]) = Cardinality(changed)
           /\ \A d1 \in DOMAIN updated :
                 \A n \in 1..Len(updated[d1]) :
                    LET e == updated[d1][n]
                    IN /\ e[1] \in 1..Len(cur[d1])
                       /\ cur[d1][e[1]] = e
                       /\ \A m \in 1..(n - 1) : updated[d1][m][1] < e[1]

C30_Witness ==
    /\ Followed
    /\ Ticked(up[1])
    /\ up[1].tick.prev # NoState
    /\ Len(up[1].tick.prev["zones_status"]) = 1
    /\ Len(up[1].tick.cur["zones_status"]) = 2
    /\ up[1].tick.cur["zones_status"][2] = <<2, "Open">>
    /\ "zones_status" \notin DOMAIN up[1].tick.updated
    /\ "areas_status" \in DOMAIN up[1].tick.updated


\* C31: whenever no call on the session is in progress, a keepalive handle
\* or a poller handle that is not empty means the session is logged in: a
\* session logged out (at first, after a login that failed, after a logout
\* that succeeded) has neither thread attached.
C31_HandlesImplyLoggedIn ==
    ctl.pc \in {"idle", "ret"} =>
        ((keepalive # None \/ updates # None) => logged_in)

C31_Witness ==
    /\ ctl.pc = "ret"
    /\ ctl.op = "logout"
    /\ ctl.err = "ok"
    /\ ctl.pre.keepalive # None
    /\ ctl.pre.updates # None
    /\ ~logged_in
    /\ keepalive = None
    /\ updates = None


\* A step in which the poller i sends GET statuslive.html.
StatusRequested(i) == UpdatesTick(i) /\ up'[i].pc = "fetch"

\* A step in which the poller i calls on_update.
OnUpdateCalled(i) ==
    \/ UpdatesResponse(i, "ok_changed")
    \/ UpdatesResponse(i, "ok_on_update_raises")

====
